---------------------------- MODULE Spec2Model ----------------------------
(***************************************************************************)
(* Model of the configuration store of the Personal Finance Tracker        *)
(* (src/config_utils.py): the ConfigManager with its categories, stores,   *)
(* keywords and settings, the auto-categorization algorithm, the budget    *)
(* functions and budget periods, loading and saving of config.toml, and    *)
(* the Budget Overview of src/app.py.                                      *)
(*                                                                         *)
(* A Python str is a sequence of code points (naturals), so that lower(),  *)
(* the substring test, equality and list.sort()'s code-point order are     *)
(* computed, not assumed.  The categories dict is a sequence of entries in *)
(* insertion order; the other dicts are functions from their keys.  An     *)
(* optional argument is << >> (None) or <<v>>.                             *)
(*                                                                         *)
(* Specifications: Spec (categories, stores, keywords, settings),          *)
(* SpecBudget (budgets and their reports), SpecSessions (two processes on  *)
(* one file), SpecFailure (failing saves and restarts), SpecPeriod         *)
(* (budget periods of reference dates).                                    *)
(***************************************************************************)
EXTENDS Integers, Sequences, FiniteSets, TLC

VARIABLES
  config,   \* ConfigManager.config of the module-level config_manager
  disk,     \* the file config.toml: << >> when missing, <<document>> otherwise
  op,       \* the last call: [name, a, b]
  ret,      \* what the last call returned
  saved,    \* whether the last call went through _save_config
  nops,     \* number of calls made so far
  peer,     \* a second ConfigManager on the same file (another process):
            \* << >> before it is constructed, <<its config>> afterwards
  who,      \* the ConfigManager that made the last call: 1 (config) or 2 (peer)
  fault,    \* how _save_config failed in the last call; "none" when it did not
  ledger,   \* the spreadsheet: worksheet name -> << >> (no such worksheet) or <<rows>>
  ui,       \* browser session -> [current_user, pending]: st.session_state and an
            \* add that has read its worksheet and not yet written it
  clock     \* what datetime.now() returns

vars == <<config, disk, op, ret, saved, nops, peer, who, fault, ledger, ui, clock>>

\* What the calls on the configuration leave alone.
outside == <<ledger, ui, clock>>

\* Number of calls explored from the initial configuration.
MaxOps == 2

(***************************************************************************)
(* String literals of the source, as code-point sequences.                 *)
(***************************************************************************)
s_Food == <<70, 111, 111, 100>>  \* "Food"
s_Supermarket == <<83, 117, 112, 101, 114, 109, 97, 114, 107, 101, 116>>  \* "Supermarket"
s_Transport == <<84, 114, 97, 110, 115, 112, 111, 114, 116>>  \* "Transport"
s_Shopping == <<83, 104, 111, 112, 112, 105, 110, 103>>  \* "Shopping"
s_Bills == <<66, 105, 108, 108, 115>>  \* "Bills"
s_Bank == <<66, 97, 110, 107>>  \* "Bank"
s_Fun == <<70, 117, 110>>  \* "Fun"
s_Health == <<72, 101, 97, 108, 116, 104>>  \* "Health"
s_Other == <<79, 116, 104, 101, 114>>  \* "Other"

\* Strings the calls are tried with, besides those of the default configuration.
s_empty == << >>  \* ""
s_Pets == <<80, 101, 116, 115>>  \* "Pets"
s_bank == <<98, 97, 110, 107>>  \* "bank"
s_BANK == <<66, 65, 78, 75>>  \* "BANK"
s_Food_Bank == <<70, 111, 111, 100, 32, 66, 97, 110, 107>>  \* "Food Bank"
s_Bankomat == <<66, 97, 110, 107, 111, 109, 97, 116>>  \* "Bankomat"
s_Kiosk == <<75, 105, 111, 115, 107>>  \* "Kiosk"
s_FOOD == <<70, 79, 79, 68>>  \* "FOOD"

\* ConfigManager._get_default_config: the configuration used when config.toml is missing.
default_config ==
  LET s_Restaurant == <<82, 101, 115, 116, 97, 117, 114, 97, 110, 116>>  \* "Restaurant"
      s_Cafe == <<67, 97, 102, 233>>  \* "Café"
      s_food == <<102, 111, 111, 100>>  \* "food"
      s_restaurant == <<114, 101, 115, 116, 97, 117, 114, 97, 110, 116>>  \* "restaurant"
      s_cafe == <<99, 97, 102, 101>>  \* "cafe"
      s_Gas_Station == <<71, 97, 115, 32, 83, 116, 97, 116, 105, 111, 110>>  \* "Gas Station"
      s_Uber == <<85, 98, 101, 114>>  \* "Uber"
      s_Taxi == <<84, 97, 120, 105>>  \* "Taxi"
      s_fuel == <<102, 117, 101, 108>>  \* "fuel"
      s_taxi == <<116, 97, 120, 105>>  \* "taxi"
      s_transport == <<116, 114, 97, 110, 115, 112, 111, 114, 116>>  \* "transport"
      s_Amazon == <<65, 109, 97, 122, 111, 110>>  \* "Amazon"
      s_Clothing_Store == <<67, 108, 111, 116, 104, 105, 110, 103, 32, 83, 116, 111, 114, 101>>  \* "Clothing Store"
      s_shopping == <<115, 104, 111, 112, 112, 105, 110, 103>>  \* "shopping"
      s_clothes == <<99, 108, 111, 116, 104, 101, 115>>  \* "clothes"
      s_Electricity_Company == <<69, 108, 101, 99, 116, 114, 105, 99, 105, 116, 121, 32, 67, 111, 109, 112, 97, 110, 121>>  \* "Electricity Company"
      s_bill == <<98, 105, 108, 108>>  \* "bill"
      s_utility == <<117, 116, 105, 108, 105, 116, 121>>  \* "utility"
      s_Cinema == <<67, 105, 110, 101, 109, 97>>  \* "Cinema"
      s_Gym == <<71, 121, 109>>  \* "Gym"
      s_entertainment == <<101, 110, 116, 101, 114, 116, 97, 105, 110, 109, 101, 110, 116>>  \* "entertainment"
      s_gym == <<103, 121, 109>>  \* "gym"
      s_Pharmacy == <<80, 104, 97, 114, 109, 97, 99, 121>>  \* "Pharmacy"
      s_Hospital == <<72, 111, 115, 112, 105, 116, 97, 108>>  \* "Hospital"
      s_health == <<104, 101, 97, 108, 116, 104>>  \* "health"
      s_medical == <<109, 101, 100, 105, 99, 97, 108>>  \* "medical"
      s_Post_Office == <<80, 111, 115, 116, 32, 79, 102, 102, 105, 99, 101>>  \* "Post Office"
      s_Miscellaneous == <<77, 105, 115, 99, 101, 108, 108, 97, 110, 101, 111, 117, 115>>  \* "Miscellaneous"
      s_other == <<111, 116, 104, 101, 114>>  \* "other"
      s_misc == <<109, 105, 115, 99>>  \* "misc"
  IN
  [ settings |-> [default_category |-> s_Other, auto_categorize |-> TRUE],
    categories |-> <<
      [name |-> s_Food,
       stores |-> <<s_Supermarket, s_Restaurant, s_Cafe>>,
       keywords |-> <<s_food, s_restaurant, s_cafe>>],
      [name |-> s_Transport,
       stores |-> <<s_Gas_Station, s_Uber, s_Taxi>>,
       keywords |-> <<s_fuel, s_taxi, s_transport>>],
      [name |-> s_Shopping,
       stores |-> <<s_Amazon, s_Clothing_Store>>,
       keywords |-> <<s_shopping, s_clothes>>],
      [name |-> s_Bills,
       stores |-> <<s_Electricity_Company, s_Bank>>,
       keywords |-> <<s_bill, s_utility>>],
      [name |-> s_Fun,
       stores |-> <<s_Cinema, s_Gym>>,
       keywords |-> <<s_entertainment, s_gym>>],
      [name |-> s_Health,
       stores |-> <<s_Pharmacy, s_Hospital>>,
       keywords |-> <<s_health, s_medical>>],
      [name |-> s_Other,
       stores |-> <<s_Post_Office, s_Miscellaneous>>,
       keywords |-> <<s_other, s_misc>>]
    >> ]

(***************************************************************************)
(* Python's str and list primitives, as the code uses them.                *)
(***************************************************************************)

\* str.lower() on one code point (ASCII and Latin-1 upper-case letters).
lower_char(c) ==
  IF (c >= 65 /\ c <= 90) \/ (c >= 192 /\ c <= 222 /\ c # 215) THEN c + 32 ELSE c

\* str.lower()
lower(s) == [i \in 1..Len(s) |-> lower_char(s[i])]

\* a < b for two str: lexicographic by code point, a proper prefix first.
RECURSIVE str_less(_, _)
str_less(a, b) ==
  IF b = << >> THEN FALSE
  ELSE IF a = << >> THEN TRUE
  ELSE IF a[1] # b[1] THEN a[1] < b[1]
  ELSE str_less(Tail(a), Tail(b))

\* sub in s, for two str: sub occurs in s as a contiguous substring.
str_in(sub, s) ==
  \E i \in 0..(Len(s) - Len(sub)) : SubSeq(s, i + 1, i + Len(sub)) = sub

\* x in list
list_in(x, list) == \E i \in 1..Len(list) : list[i] = x

\* [f.lower() for f in list]
lower_all(list) == [i \in 1..Len(list) |-> lower(list[i])]

\* list.remove(x): drops the first element equal to x.
list_remove(list, x) ==
  LET i == CHOOSE k \in 1..Len(list) :
             list[k] = x /\ \A j \in 1..(k - 1) : list[j] # x
  IN SubSeq(list, 1, i - 1) \o SubSeq(list, i + 1, Len(list))

\* One insertion step of a stable ascending sort.
RECURSIVE sort_insert(_, _)
sort_insert(sorted, x) ==
  IF sorted = << >> THEN <<x>>
  ELSE IF str_less(x, sorted[Len(sorted)])
       THEN Append(sort_insert(SubSeq(sorted, 1, Len(sorted) - 1), x),
                   sorted[Len(sorted)])
       ELSE Append(sorted, x)

\* list.sort() of a list of str.
RECURSIVE list_sort(_)
list_sort(list) ==
  IF list = << >> THEN << >>
  ELSE sort_insert(list_sort(SubSeq(list, 1, Len(list) - 1)), list[Len(list)])

(***************************************************************************)
(* The dict config["categories"]: entries [name, stores, keywords] in      *)
(* insertion order.                                                        *)
(***************************************************************************)

\* name in categories
dict_has(categories, name) ==
  \E i \in 1..Len(categories) : categories[i].name = name

\* position of the key name (the key is present)
dict_index(categories, name) ==
  CHOOSE i \in 1..Len(categories) : categories[i].name = name

\* categories[name]
dict_get(categories, name) == categories[dict_index(categories, name)]

\* categories[name] = value: a present key keeps its position, a new key goes last.
dict_set(categories, name, value) ==
  LET entry == [name |-> name, stores |-> value.stores, keywords |-> value.keywords]
  IN IF dict_has(categories, name)
     THEN [categories EXCEPT ![dict_index(categories, name)] = entry]
     ELSE Append(categories, entry)

\* del categories[name]
dict_del(categories, name) ==
  LET i == dict_index(categories, name)
  IN SubSeq(categories, 1, i - 1) \o SubSeq(categories, i + 1, Len(categories))

(***************************************************************************)
(* The other dicts (the configuration itself, settings, budgets,           *)
(* budget_settings) are functions from their keys: their order is never    *)
(* used.  A key that is absent is outside the DOMAIN.                      *)
(***************************************************************************)

\* {}
empty_map == [k \in {} |-> k]

\* key in d
map_has(d, key) == key \in DOMAIN d

\* d.get(key, default)
map_get(d, key, default) == IF key \in DOMAIN d THEN d[key] ELSE default

\* d[key] = value
map_put(d, key, value) ==
  [k \in DOMAIN d \cup {key} |-> IF k = key THEN value ELSE d[k]]

\* del d[key]
map_del(d, key) == [k \in DOMAIN d \ {key} |-> d[k]]

\* What dict.get(key) yields for an absent key; no str equals it.
None == <<-1>>

\* self.config.get("categories", {})
categories_of(cfg) == map_get(cfg, "categories", << >>)

\* self.config.get("settings", {})
settings_of(cfg) == map_get(cfg, "settings", empty_map)

\* ConfigManager.get_categories
get_categories(cfg) == [i \in 1..Len(categories_of(cfg)) |-> categories_of(cfg)[i].name]

\* ConfigManager.get_stores_for_category
get_stores_for_category(cfg, category) ==
  IF dict_has(categories_of(cfg), category)
  THEN dict_get(categories_of(cfg), category).stores
  ELSE << >>

\* ConfigManager.get_keywords_for_category
get_keywords_for_category(cfg, category) ==
  IF dict_has(categories_of(cfg), category)
  THEN dict_get(categories_of(cfg), category).keywords
  ELSE << >>

\* ConfigManager.get_default_category
get_default_category(cfg) ==
  map_get(settings_of(cfg), "default_category", s_Other)

\* ConfigManager.is_auto_categorize_enabled
is_auto_categorize_enabled(cfg) ==
  map_get(settings_of(cfg), "auto_categorize", TRUE)

(***************************************************************************)
(* ConfigManager.auto_categorize_store                                     *)
(***************************************************************************)

\* Faulty variant of the first loop: the last matching category wins.
RECURSIVE exact_match_last(_, _, _)
exact_match_last(categories, store_name_lower, i) ==
  IF i > Len(categories) THEN 0
  ELSE LET later == exact_match_last(categories, store_name_lower, i + 1)
       IN IF later # 0 THEN later
          ELSE IF list_in(store_name_lower, lower_all(categories[i].stores)) THEN i
          ELSE 0

\* The first loop: the first category, from position i on, whose lower-cased
\* store list holds the lower-cased name; 0 when the loop ends without one.
RECURSIVE exact_match(_, _, _)
exact_match(categories, store_name_lower, i) ==
  IF i > Len(categories) THEN 0
  ELSE IF list_in(store_name_lower, lower_all(categories[i].stores)) THEN i
  ELSE exact_match(categories, store_name_lower, i + 1)

\* The inner keyword loop: some keyword of the list, lower-cased, is in the name.
keyword_hit(keywords, store_name_lower) ==
  \E k \in 1..Len(keywords) : str_in(lower(keywords[k]), store_name_lower)

\* The second loop: the first category, from position i on, with a keyword hit.
RECURSIVE keyword_match(_, _, _)
keyword_match(categories, store_name_lower, i) ==
  IF i > Len(categories) THEN 0
  ELSE IF keyword_hit(categories[i].keywords, store_name_lower) THEN i
  ELSE keyword_match(categories, store_name_lower, i + 1)

\* Faulty variant: the auto_categorize setting is never consulted.
auto_categorize_store_ignoring_switch(cfg, store_name) ==
  LET store_name_lower == lower(store_name)
      e == exact_match(categories_of(cfg), store_name_lower, 1)
      k == keyword_match(categories_of(cfg), store_name_lower, 1)
  IN IF e # 0 THEN categories_of(cfg)[e].name
     ELSE IF k # 0 THEN categories_of(cfg)[k].name
     ELSE get_default_category(cfg)

\* Faulty variant: the keyword loop runs before the exact-match loop.
auto_categorize_store_keywords_first(cfg, store_name) ==
  IF ~is_auto_categorize_enabled(cfg)
  THEN get_default_category(cfg)
  ELSE LET store_name_lower == lower(store_name)
           e == exact_match(categories_of(cfg), store_name_lower, 1)
           k == keyword_match(categories_of(cfg), store_name_lower, 1)
       IN IF k # 0 THEN categories_of(cfg)[k].name
          ELSE IF e # 0 THEN categories_of(cfg)[e].name
          ELSE get_default_category(cfg)

\* Faulty variant: the store name is compared as typed, not lower-cased.
auto_categorize_store_name_as_typed(cfg, store_name) ==
  IF ~is_auto_categorize_enabled(cfg)
  THEN get_default_category(cfg)
  ELSE LET e == exact_match(categories_of(cfg), store_name, 1)
           k == keyword_match(categories_of(cfg), store_name, 1)
       IN IF e # 0 THEN categories_of(cfg)[e].name
          ELSE IF k # 0 THEN categories_of(cfg)[k].name
          ELSE get_default_category(cfg)

auto_categorize_store(cfg, store_name) ==
  IF ~is_auto_categorize_enabled(cfg)
  THEN get_default_category(cfg)
  ELSE LET store_name_lower == lower(store_name)
           e == exact_match(categories_of(cfg), store_name_lower, 1)
           k == keyword_match(categories_of(cfg), store_name_lower, 1)
       IN IF e # 0 THEN categories_of(cfg)[e].name
          ELSE IF k # 0 THEN categories_of(cfg)[k].name
          ELSE get_default_category(cfg)

(***************************************************************************)
(* The mutating methods.  Each yields the configuration after the call,    *)
(* the value returned, and whether _save_config was reached.               *)
(***************************************************************************)

\* What a call yields when it returns False without touching the configuration.
refused(cfg) == [config |-> cfg, ret |-> FALSE, saved |-> FALSE]

\* What a call yields when it changed the configuration and saved it.
done(cfg) == [config |-> cfg, ret |-> TRUE, saved |-> TRUE]

\* Faulty variant: the budgets table is left out of the written document.
save_config_without_budgets(cfg) == <<map_del(cfg, "budgets")>>

\* ConfigManager._save_config: the whole configuration replaces the file.
save_config(cfg) == <<cfg>>

\* Faulty variant: the store is appended without looking for a duplicate.
add_store_to_category_unchecked(cfg, category, store_name) ==
  IF ~dict_has(categories_of(cfg), category) THEN refused(cfg)
  ELSE LET data == dict_get(categories_of(cfg), category)
       IN done([cfg EXCEPT !.categories = dict_set(categories_of(cfg), category,
                  [data EXCEPT !.stores = list_sort(Append(data.stores, store_name))])])

\* ConfigManager.add_store_to_category
add_store_to_category(cfg, category, store_name) ==
  IF ~dict_has(categories_of(cfg), category) THEN refused(cfg)
  ELSE LET data == dict_get(categories_of(cfg), category)
       IN IF ~list_in(store_name, data.stores)
          THEN done([cfg EXCEPT !.categories = dict_set(categories_of(cfg), category,
                       [data EXCEPT !.stores = list_sort(Append(data.stores, store_name))])])
          ELSE refused(cfg)

\* ConfigManager.remove_store_from_category
remove_store_from_category(cfg, category, store_name) ==
  IF dict_has(categories_of(cfg), category)
     /\ list_in(store_name, dict_get(categories_of(cfg), category).stores)
  THEN LET data == dict_get(categories_of(cfg), category)
       IN done([cfg EXCEPT !.categories = dict_set(categories_of(cfg), category,
                  [data EXCEPT !.stores = list_remove(data.stores, store_name)])])
  ELSE refused(cfg)

\* ConfigManager.add_category
add_category(cfg, category_name) ==
  IF ~dict_has(categories_of(cfg), category_name)
  THEN IF ~map_has(cfg, "categories")
       THEN refused(cfg)  \* KeyError on self.config["categories"], caught: return False
       ELSE done([cfg EXCEPT !.categories = dict_set(categories_of(cfg), category_name,
               [stores |-> << >>, keywords |-> << >>])])
  ELSE refused(cfg)

\* Faulty variant: the budget of the removed category goes with it.
remove_category_with_budget(cfg, category_name) ==
  IF dict_has(categories_of(cfg), category_name)
  THEN LET removed == [cfg EXCEPT !.categories = dict_del(categories_of(cfg), category_name)]
       IN done(IF map_has(removed, "budgets")
               THEN map_put(removed, "budgets", map_del(removed["budgets"], category_name))
               ELSE removed)
  ELSE refused(cfg)

\* ConfigManager.remove_category
remove_category(cfg, category_name) ==
  IF dict_has(categories_of(cfg), category_name)
  THEN done([cfg EXCEPT !.categories = dict_del(categories_of(cfg), category_name)])
  ELSE refused(cfg)

\* Faulty variant: the keyword is stored as typed, not lower-cased.
add_keyword_to_category_as_typed(cfg, category, keyword) ==
  IF ~dict_has(categories_of(cfg), category) THEN refused(cfg)
  ELSE LET data == dict_get(categories_of(cfg), category)
       IN IF ~list_in(lower(keyword), lower_all(data.keywords))
          THEN done([cfg EXCEPT !.categories = dict_set(categories_of(cfg), category,
                       [data EXCEPT !.keywords =
                          list_sort(Append(data.keywords, keyword))])])
          ELSE refused(cfg)

\* ConfigManager.add_keyword_to_category
add_keyword_to_category(cfg, category, keyword) ==
  IF ~dict_has(categories_of(cfg), category) THEN refused(cfg)
  ELSE LET data == dict_get(categories_of(cfg), category)
       IN IF ~list_in(lower(keyword), lower_all(data.keywords))
          THEN done([cfg EXCEPT !.categories = dict_set(categories_of(cfg), category,
                       [data EXCEPT !.keywords =
                          list_sort(Append(data.keywords, lower(keyword)))])])
          ELSE refused(cfg)

\* ConfigManager.remove_keyword_from_category
remove_keyword_from_category(cfg, category, keyword) ==
  IF dict_has(categories_of(cfg), category)
     /\ list_in(lower(keyword), lower_all(dict_get(categories_of(cfg), category).keywords))
  THEN LET data == dict_get(categories_of(cfg), category)
           keywords == data.keywords
           \* the for loop: the first k with k.lower() == keyword.lower()
           i == CHOOSE n \in 1..Len(keywords) :
                  /\ lower(keywords[n]) = lower(keyword)
                  /\ \A j \in 1..(n - 1) : lower(keywords[j]) # lower(keyword)
       IN done([cfg EXCEPT !.categories = dict_set(categories_of(cfg), category,
                  [data EXCEPT !.keywords = list_remove(keywords, keywords[i])])])
  ELSE refused(cfg)

\* ConfigManager.update_settings; an argument is << >> for None, <<v>> otherwise.
update_settings(cfg, default_category, auto_categorize) ==
  LET s0 == settings_of(cfg)  \* created empty when the key is absent
      s1 == IF default_category # << >>
            THEN map_put(s0, "default_category", default_category[1])
            ELSE s0
      s2 == IF auto_categorize # << >>
            THEN map_put(s1, "auto_categorize", auto_categorize[1])
            ELSE s1
  IN done(map_put(cfg, "settings", s2))

\* Faulty variant: the new name is not checked against the existing categories.
rename_category_unchecked(cfg, old_name, new_name) ==
  IF dict_has(categories_of(cfg), old_name)
  THEN LET moved == dict_del(dict_set(categories_of(cfg), new_name,
                                      dict_get(categories_of(cfg), old_name)),
                             old_name)
           settings == IF map_get(settings_of(cfg), "default_category", None) = old_name
                       THEN map_put(cfg, "settings",
                                    map_put(settings_of(cfg), "default_category", new_name))
                       ELSE cfg
       IN done([settings EXCEPT !.categories = moved])
  ELSE refused(cfg)

\* Faulty variant: default_category is left pointing at the old name.
rename_category_keeps_default(cfg, old_name, new_name) ==
  IF dict_has(categories_of(cfg), old_name) /\ ~dict_has(categories_of(cfg), new_name)
  THEN done([cfg EXCEPT !.categories =
               dict_del(dict_set(categories_of(cfg), new_name,
                                 dict_get(categories_of(cfg), old_name)),
                        old_name)])
  ELSE refused(cfg)

\* Faulty variant: the renamed category keeps its place.
rename_category_in_place(cfg, old_name, new_name) ==
  IF dict_has(categories_of(cfg), old_name) /\ ~dict_has(categories_of(cfg), new_name)
  THEN LET renamed == [i \in 1..Len(categories_of(cfg)) |->
                         IF categories_of(cfg)[i].name = old_name
                         THEN [categories_of(cfg)[i] EXCEPT !.name = new_name]
                         ELSE categories_of(cfg)[i]]
           settings == IF map_get(settings_of(cfg), "default_category", None) = old_name
                       THEN map_put(cfg, "settings",
                                    map_put(settings_of(cfg), "default_category", new_name))
                       ELSE cfg
       IN done([settings EXCEPT !.categories = renamed])
  ELSE refused(cfg)

\* ConfigManager.rename_category
rename_category(cfg, old_name, new_name) ==
  IF dict_has(categories_of(cfg), old_name) /\ ~dict_has(categories_of(cfg), new_name)
  THEN LET moved == dict_del(dict_set(categories_of(cfg), new_name,
                                      dict_get(categories_of(cfg), old_name)),
                             old_name)
           settings == IF map_get(settings_of(cfg), "default_category", None) = old_name
                       THEN map_put(cfg, "settings",
                                    map_put(settings_of(cfg), "default_category", new_name))
                       ELSE cfg
       IN done([settings EXCEPT !.categories = moved])
  ELSE refused(cfg)

(***************************************************************************)
(* The state machine: one action per call on the shared config_manager.    *)
(***************************************************************************)

\* Arguments the calls are tried with.
CategoryArgs == {s_Food, s_Other, s_Pets}
StoreArgs == {s_empty, s_Bank, s_bank, s_Supermarket}
KeywordArgs == {s_empty, s_FOOD, s_Bank}
StoreQueries == {s_empty, s_BANK, s_Food_Bank, s_Bankomat, s_Kiosk}
DefaultCategoryArgs == {<< >>, <<s_Food>>}
AutoCategorizeArgs == {<< >>, <<TRUE>>, <<FALSE>>}

\* config_manager = ConfigManager(): no config.toml yet, so the defaults are used.
\* The process has started: no config.toml, no call made yet.
InitStore ==
  /\ config = default_config
  /\ disk = << >>
  /\ op = [name |-> "init", a |-> << >>, b |-> << >>]
  /\ ret = FALSE
  /\ saved = FALSE
  /\ nops = 0
  /\ peer = << >>
  /\ who = 1
  /\ fault = "none"

\* st.session_state of a new browser session: get_current_user selects user1.
new_session == [current_user |-> "user1", pending |-> << >>]

Init ==
  /\ InitStore
  /\ ledger = empty_map  \* a spreadsheet without worksheets
  /\ ui = [s \in {1, 2} |-> new_session]
  /\ clock = [year |-> 2024, month |-> 3, day |-> 1, hour |-> 0, minute |-> 0,
              second |-> 0, microsecond |-> 0]

\* A call with result r: the configuration changes in memory and, when the
\* call saved, on disk.
Call(name, a, b, r) ==
  /\ nops < MaxOps
  /\ config' = r.config
  /\ disk' = IF r.saved THEN save_config(r.config) ELSE disk
  /\ op' = [name |-> name, a |-> a, b |-> b]
  /\ ret' = r.ret
  /\ saved' = r.saved
  /\ nops' = nops + 1
  /\ peer' = peer
  /\ who' = 1
  /\ fault' = "none"
  /\ UNCHANGED outside

AddStoreToCategory ==
  \E category \in CategoryArgs, store_name \in StoreArgs :
    Call("add_store_to_category", category, store_name,
         add_store_to_category(config, category, store_name))

RemoveStoreFromCategory ==
  \E category \in CategoryArgs, store_name \in StoreArgs :
    Call("remove_store_from_category", category, store_name,
         remove_store_from_category(config, category, store_name))

AddCategory ==
  \E category_name \in CategoryArgs :
    Call("add_category", category_name, << >>, add_category(config, category_name))

RemoveCategory ==
  \E category_name \in CategoryArgs :
    Call("remove_category", category_name, << >>, remove_category(config, category_name))

AddKeywordToCategory ==
  \E category \in CategoryArgs, keyword \in KeywordArgs :
    Call("add_keyword_to_category", category, keyword,
         add_keyword_to_category(config, category, keyword))

RemoveKeywordFromCategory ==
  \E category \in CategoryArgs, keyword \in KeywordArgs :
    Call("remove_keyword_from_category", category, keyword,
         remove_keyword_from_category(config, category, keyword))

UpdateSettings ==
  \E default_category \in DefaultCategoryArgs, auto_categorize \in AutoCategorizeArgs :
    Call("update_settings", default_category, auto_categorize,
         update_settings(config, default_category, auto_categorize))

RenameCategory ==
  \E old_name \in CategoryArgs, new_name \in CategoryArgs :
    Call("rename_category", old_name, new_name,
         rename_category(config, old_name, new_name))

\* auto_categorize_store is a read-only call: it returns the category and saves nothing.
AutoCategorizeStore ==
  \E store_name \in StoreQueries :
    Call("auto_categorize_store", store_name, << >>,
         [config |-> config, ret |-> auto_categorize_store(config, store_name),
          saved |-> FALSE])

Next ==
  \/ AddStoreToCategory
  \/ RemoveStoreFromCategory
  \/ AddCategory
  \/ RemoveCategory
  \/ AddKeywordToCategory
  \/ RemoveKeywordFromCategory
  \/ UpdateSettings
  \/ RenameCategory
  \/ AutoCategorizeStore

Spec == Init /\ [][Next]_vars

(***************************************************************************)
(* Vocabulary of the properties.                                           *)
(***************************************************************************)

Categories == categories_of(config)
Positions == 1..Len(Categories)

\* a and b are equal when case is ignored.
SameIgnoringCase(a, b) ==
  /\ Len(a) = Len(b)
  /\ \A d \in 1..Len(a) : lower_char(a[d]) = lower_char(b[d])

\* The string kw occurs in the string nm when case is ignored.
OccursIgnoringCase(kw, nm) ==
  \E from \in 1..(Len(nm) - Len(kw) + 1) :
    \A d \in 1..Len(kw) : lower_char(nm[from + d - 1]) = lower_char(kw[d])

\* The name, ignoring case, is in the store list of the category at position i.
ExactAt(store_name, i) ==
  \E n \in 1..Len(Categories[i].stores) :
    SameIgnoringCase(Categories[i].stores[n], store_name)

\* Some keyword of the category at position i occurs, ignoring case, in the name.
KeywordAt(store_name, i) ==
  \E n \in 1..Len(Categories[i].keywords) :
    OccursIgnoringCase(Categories[i].keywords[n], store_name)

\* The positions of the categories listing the name as a store, ignoring case.
ExactPositions(store_name) == {i \in Positions : ExactAt(store_name, i)}

\* The positions of the categories with a keyword occurring in the name.
KeywordPositions(store_name) == {i \in Positions : KeywordAt(store_name, i)}

NoExactAnywhere(store_name) == ExactPositions(store_name) = {}

\* The last call was auto_categorize_store(store_name).
Asked(store_name) == op.name = "auto_categorize_store" /\ op.a = store_name

\* Number of positions of the list holding x.
Count(list, x) == Cardinality({i \in 1..Len(list) : list[i] = x})

\* Ascending order, by code points.
IsSorted(list) ==
  \A i \in 1..(Len(list) - 1) : list[i] = list[i + 1] \/ str_less(list[i], list[i + 1])

(***************************************************************************)
(* C1.  With auto-categorization disabled, auto_categorize_store returns   *)
(* the default category for every store name, also for a name that matches *)
(* a configured store or contains a configured keyword.                    *)
(***************************************************************************)
C1_DisabledReturnsDefault ==
  ~is_auto_categorize_enabled(config) =>
    /\ \A s \in StoreQueries :
         auto_categorize_store(config, s) = get_default_category(config)
    /\ op.name = "auto_categorize_store" => ret = get_default_category(config)

\* "BANK" was asked with the switch off while Bills lists the store "Bank".
C1_Witness ==
  /\ Asked(s_BANK)
  /\ ~is_auto_categorize_enabled(config)
  /\ \E i \in Positions : ExactAt(s_BANK, i) /\ Categories[i].name # ret
  /\ ret = get_default_category(config)

(***************************************************************************)
(* C2 as stated.  With auto-categorization enabled, a name that exactly    *)
(* matches (ignoring case) a store of category C is categorized as C,      *)
(* whatever the keywords are.                                              *)
(***************************************************************************)
C2_ExactMatchReturnsThatCategory ==
  is_auto_categorize_enabled(config) =>
    \A s \in StoreQueries : \A i \in Positions :
      ExactAt(s, i) => auto_categorize_store(config, s) = Categories[i].name

(***************************************************************************)
(* C2 amended.  With auto-categorization enabled, a name that exactly      *)
(* matches (ignoring case) a store of category C is categorized as the     *)
(* first category, in iteration order, that lists such a store: C itself   *)
(* unless an earlier category lists the name too.  Keywords play no part.  *)
(***************************************************************************)
C2_ExactMatchReturnsFirstListing ==
  is_auto_categorize_enabled(config) =>
    \A s \in StoreQueries :
      LET exact == ExactPositions(s)
      IN \A i \in exact :
           (\A j \in 1..(i - 1) : j \notin exact)
             => /\ auto_categorize_store(config, s) = Categories[i].name
                /\ Asked(s) => ret = Categories[i].name

\* "BANK" was asked while an earlier category has a keyword occurring in it.
C2_Witness ==
  /\ is_auto_categorize_enabled(config)
  /\ Asked(s_BANK)
  /\ \E i \in Positions :
       /\ ExactAt(s_BANK, i)
       /\ ret = Categories[i].name
       /\ \E j \in 1..(i - 1) : KeywordAt(s_BANK, j) /\ ~ExactAt(s_BANK, j)

(***************************************************************************)
(* C3 as stated.  With auto-categorization enabled, a name that contains   *)
(* (ignoring case) a keyword of category K and exactly matches no store of *)
(* any category is categorized as K.                                       *)
(***************************************************************************)
C3_KeywordReturnsThatCategory ==
  is_auto_categorize_enabled(config) =>
    \A s \in StoreQueries : \A i \in Positions :
      (NoExactAnywhere(s) /\ KeywordAt(s, i))
        => auto_categorize_store(config, s) = Categories[i].name

(***************************************************************************)
(* C3 amended.  With auto-categorization enabled, a name that contains     *)
(* (ignoring case) a keyword of category K and exactly matches no store of *)
(* any category is categorized as the first category, in iteration order,  *)
(* one of whose keywords it contains: K itself unless an earlier category  *)
(* has such a keyword too.                                                 *)
(***************************************************************************)
C3_KeywordReturnsFirstHit ==
  is_auto_categorize_enabled(config) =>
    \A s \in StoreQueries :
      LET hits == KeywordPositions(s)
      IN \A i \in hits :
           (NoExactAnywhere(s) /\ \A j \in 1..(i - 1) : j \notin hits)
             => /\ auto_categorize_store(config, s) = Categories[i].name
                /\ Asked(s) => ret = Categories[i].name

\* "Food Bank" was asked: no store has that name, the keyword "food" occurs in
\* it only when case is ignored.
C3_Witness ==
  /\ is_auto_categorize_enabled(config)
  /\ Asked(s_Food_Bank)
  /\ NoExactAnywhere(s_Food_Bank)
  /\ \E i \in Positions :
       /\ KeywordAt(s_Food_Bank, i)
       /\ ret = Categories[i].name
       /\ ret # get_default_category(config)

(***************************************************************************)
(* C4.  Ties go to the first category in get_categories() order: with      *)
(* auto-categorization enabled, a name exactly matching stores of two or   *)
(* more categories is categorized as the earliest of them, and a name with *)
(* no exact match that contains keywords of two or more categories as the  *)
(* earliest of those.                                                      *)
(***************************************************************************)
C4_TiesGoToFirstCategory ==
  is_auto_categorize_enabled(config) =>
    \A s \in StoreQueries :
      LET exact == ExactPositions(s)
          hits == KeywordPositions(s)
          first(S) == CHOOSE i \in S : \A j \in S : i <= j
          names == get_categories(config)
      IN /\ Cardinality(exact) >= 2
              => auto_categorize_store(config, s) = names[first(exact)]
         /\ (exact = {} /\ Cardinality(hits) >= 2)
              => auto_categorize_store(config, s) = names[first(hits)]
         /\ (Asked(s) /\ Cardinality(exact) >= 2) => ret = names[first(exact)]

\* "BANK" was asked while two categories list a store of that name.
C4_Witness ==
  /\ is_auto_categorize_enabled(config)
  /\ Asked(s_BANK)
  /\ \E i \in Positions : \E j \in Positions :
       /\ i < j
       /\ ExactAt(s_BANK, i) /\ ExactAt(s_BANK, j)
       /\ ret = Categories[i].name

(***************************************************************************)
(* C5.  With auto-categorization enabled, the empty store name matches     *)
(* nothing: auto_categorize_store("") returns the default category in      *)
(* every configuration the add calls can produce.                          *)
(***************************************************************************)
C5_EmptyNameReturnsDefault ==
  is_auto_categorize_enabled(config) =>
    auto_categorize_store(config, s_empty) = get_default_category(config)

(***************************************************************************)
(* C6 as stated.  Calling add_store_to_category(cat, s) twice on an        *)
(* existing category leaves s exactly once in cat's store list; the first  *)
(* call returns true, the second returns false and changes nothing.        *)
(***************************************************************************)
C6_AddStoreTwiceTrueThenFalse ==
  \A cat \in CategoryArgs : \A s \in StoreArgs :
    dict_has(Categories, cat) =>
      LET first == add_store_to_category(config, cat, s)
          second == add_store_to_category(first.config, cat, s)
      IN /\ first.ret = TRUE
         /\ second.ret = FALSE
         /\ second.config = first.config
         /\ ~second.saved
         /\ Count(get_stores_for_category(second.config, cat), s) = 1

(***************************************************************************)
(* C6 amended.  Calling add_store_to_category(cat, s) twice on an existing *)
(* category leaves s exactly once in cat's store list; the first call      *)
(* returns true when s was not yet in the list (and false, changing        *)
(* nothing, when it was), the second returns false and changes nothing.    *)
(* Only an exactly equal string counts as a duplicate.                     *)
(***************************************************************************)
C6_AddStoreIdempotent ==
  \A cat \in CategoryArgs : \A s \in StoreArgs :
    dict_has(Categories, cat) =>
      LET before == get_stores_for_category(config, cat)
          first == add_store_to_category(config, cat, s)
          second == add_store_to_category(first.config, cat, s)
      IN /\ first.ret = (Count(before, s) = 0)
         /\ Count(before, s) > 0 => (first.config = config /\ ~first.saved)
         /\ second.ret = FALSE
         /\ second.config = first.config
         /\ ~second.saved
         /\ Count(get_stores_for_category(second.config, cat), s) = 1

\* The second of two calls add_store_to_category("Food", "bank"): the default
\* Food has no store "bank", so the first call put it there.
C6_Witness ==
  /\ nops = 2
  /\ op = [name |-> "add_store_to_category", a |-> s_Food, b |-> s_bank]
  /\ ret = FALSE
  /\ ~saved
  /\ Count(get_stores_for_category(config, s_Food), s_bank) = 1

(***************************************************************************)
(* C7.  After every successful add_store_to_category or                    *)
(* remove_store_from_category on a category, that category's store list is *)
(* in ascending order, starting from the default configuration.            *)
(***************************************************************************)
C7_StoresSortedAfterMutation ==
  (op.name \in {"add_store_to_category", "remove_store_from_category"} /\ ret = TRUE)
    => IsSorted(get_stores_for_category(config, op.a))

\* No upper-case letter (ASCII) in the string.
IsLowerCase(s) == \A i \in 1..Len(s) : ~(s[i] >= 65 /\ s[i] <= 90)

\* list without its element at position i.
Without(list, i) == [n \in 1..(Len(list) - 1) |-> IF n < i THEN list[n] ELSE list[n + 1]]

\* The step is the call name(a, b) on a category that exists before the call.
CallOnExisting(name) == op'.name = name /\ dict_has(categories_of(config), op'.a)

\* The step is the call name(a, b) on a category that does not exist before the call.
CallOnMissing(name) == op'.name = name /\ ~dict_has(categories_of(config), op'.a)

\* The step returned False, changed nothing in memory and wrote nothing.
Refused == ret' = FALSE /\ config' = config /\ disk' = disk /\ saved' = FALSE

(***************************************************************************)
(* C8.  add_keyword_to_category stores the keyword lower-cased and leaves  *)
(* the keyword list sorted; it returns false and changes nothing when the  *)
(* keyword is already there ignoring case.  remove_keyword_from_category   *)
(* removes exactly one keyword, one equal to the argument ignoring case,   *)
(* and returns true; it returns false and changes nothing when no keyword  *)
(* equals the argument ignoring case.                                      *)
(***************************************************************************)
C8_KeywordStep ==
  LET category == op'.a
      keyword == op'.b
      old == get_keywords_for_category(config, category)
      new == get_keywords_for_category(config', category)
      present == \E n \in 1..Len(old) : SameIgnoringCase(old[n], keyword)
  IN /\ CallOnExisting("add_keyword_to_category") =>
          IF present THEN Refused
          ELSE /\ ret' = TRUE
               /\ IsSorted(new)
               /\ Len(new) = Len(old) + 1
               /\ \E n \in 1..Len(new) :
                    /\ IsLowerCase(new[n])
                    /\ SameIgnoringCase(new[n], keyword)
                    /\ \A x \in 1..Len(old) : Count(Without(new, n), old[x]) = Count(old, old[x])
     /\ CallOnExisting("remove_keyword_from_category") =>
          IF present
          THEN /\ ret' = TRUE
               /\ \E n \in 1..Len(old) :
                    SameIgnoringCase(old[n], keyword) /\ new = Without(old, n)
          ELSE Refused

C8_KeywordsNormalized == [][C8_KeywordStep]_vars

\* remove_keyword_from_category(c, "Bank") returned true right after a first
\* call: no default keyword is "bank", so add_keyword_to_category(c, "Bank")
\* had stored it lower-cased.
C8_Witness ==
  /\ nops = 2
  /\ op.name = "remove_keyword_from_category"
  /\ op.b = s_Bank
  /\ ret = TRUE
  /\ ~list_in(s_bank, get_keywords_for_category(config, op.a))
  /\ dict_has(Categories, op.a)

(***************************************************************************)
(* C9.  A validation failure is a false return with no change of the       *)
(* configuration in memory and no write: add_category of an existing name, *)
(* remove_category of a missing name, rename_category with a missing old   *)
(* name or an existing new name (old = new included), and add_store,       *)
(* add_keyword, remove_store, remove_keyword on a missing category.  Every *)
(* call returns a boolean.                                                 *)
(***************************************************************************)
C9_ValidationStep ==
  /\ CallOnExisting("add_category") => Refused
  /\ CallOnMissing("remove_category") => Refused
  /\ CallOnMissing("rename_category") => Refused
  /\ (op'.name = "rename_category" /\ dict_has(categories_of(config), op'.b)) => Refused
  /\ CallOnMissing("add_store_to_category") => Refused
  /\ CallOnMissing("add_keyword_to_category") => Refused
  /\ CallOnMissing("remove_store_from_category") => Refused
  /\ CallOnMissing("remove_keyword_from_category") => Refused
  /\ op'.name # "auto_categorize_store" => ret' \in BOOLEAN

C9_ValidationFailuresRefused == [][C9_ValidationStep]_vars

\* rename_category(c, c) of an existing category was refused after an earlier
\* call had written the file.
C9_Witness ==
  /\ op.name = "rename_category"
  /\ op.a = op.b
  /\ dict_has(Categories, op.a)
  /\ ret = FALSE
  /\ ~saved
  /\ disk = <<config>>

(***************************************************************************)
(* C10.  A successful rename_category(old, new) removes old, gives new     *)
(* exactly old's stores and keywords, sets default_category to new if and  *)
(* only if it was old (and leaves it alone otherwise), and the set of      *)
(* category names is the previous one with old replaced by new.            *)
(***************************************************************************)
C10_RenameStep ==
  (op'.name = "rename_category" /\ ret' = TRUE) =>
    LET old_name == op'.a
        new_name == op'.b
        names(cfg) == {cfg.categories[i].name : i \in 1..Len(cfg.categories)}
    IN /\ ~dict_has(config'.categories, old_name)
       /\ dict_has(config'.categories, new_name)
       /\ get_stores_for_category(config', new_name)
            = get_stores_for_category(config, old_name)
       /\ get_keywords_for_category(config', new_name)
            = get_keywords_for_category(config, old_name)
       /\ get_default_category(config')
            = IF get_default_category(config) = old_name
              THEN new_name
              ELSE get_default_category(config)
       /\ names(config') = (names(config) \ {old_name}) \cup {new_name}
       /\ Len(config'.categories) = Len(config.categories)

C10_RenameMovesCategory == [][C10_RenameStep]_vars

\* rename_category("Food", "Pets") succeeded after Food had been made the
\* default category: Pets is the default now and carries Food's stores.
C10_Witness ==
  /\ op = [name |-> "rename_category", a |-> s_Food, b |-> s_Pets]
  /\ ret = TRUE
  /\ get_default_category(config) = s_Pets
  /\ get_stores_for_category(config, s_Pets) = default_config.categories[1].stores
  /\ ~dict_has(Categories, s_Food)

(***************************************************************************)
(* Budgets: the module-level functions of config_utils.py that keep budget *)
(* definitions and budget settings in config_manager.config.  Amounts and  *)
(* thresholds are whole numbers, on which float() and int() keep the       *)
(* value; period and start_date are never inspected character by           *)
(* character, so they are plain strings.                                   *)
(***************************************************************************)

\* Number of calls explored by the budget specification.
MaxBudgetOps == 3

\* get_budgets
get_budgets(cfg) == map_get(cfg, "budgets", empty_map)

\* Faulty variant: the new definition replaces the whole budgets table.
set_budget_alone(cfg, category, amount, period, start_date, is_active) ==
  done(map_put(cfg, "budgets",
               map_put(empty_map, category,
                       [amount |-> amount, period |-> period,
                        start_date |-> start_date, is_active |-> is_active])))

\* set_budget
set_budget(cfg, category, amount, period, start_date, is_active) ==
  done(map_put(cfg, "budgets",
               map_put(get_budgets(cfg), category,
                       [amount |-> amount, period |-> period,
                        start_date |-> start_date, is_active |-> is_active])))

\* delete_budget
delete_budget(cfg, category) ==
  IF map_has(cfg, "budgets") /\ map_has(cfg["budgets"], category)
  THEN done(map_put(cfg, "budgets", map_del(cfg["budgets"], category)))
  ELSE refused(cfg)

\* Defaults of get_budget_settings.
default_warning_threshold == 80
default_alert_threshold == 100

\* get_budget_settings
get_budget_settings(cfg) ==
  LET budget_settings == map_get(cfg, "budget_settings", empty_map)
  IN [default_period |-> map_get(budget_settings, "default_period", "monthly"),
      warning_threshold |->
        map_get(budget_settings, "warning_threshold", default_warning_threshold),
      alert_threshold |->
        map_get(budget_settings, "alert_threshold", default_alert_threshold)]

\* Faulty variant: an omitted field is reset to its default.
update_budget_settings_resetting(cfg, default_period, warning_threshold, alert_threshold) ==
  LET s0 == empty_map
      s1 == IF default_period # << >>
            THEN map_put(s0, "default_period", default_period[1]) ELSE s0
      s2 == IF warning_threshold # << >>
            THEN map_put(s1, "warning_threshold", warning_threshold[1]) ELSE s1
      s3 == IF alert_threshold # << >>
            THEN map_put(s2, "alert_threshold", alert_threshold[1]) ELSE s2
  IN done(map_put(cfg, "budget_settings", s3))

\* update_budget_settings
update_budget_settings(cfg, default_period, warning_threshold, alert_threshold) ==
  LET s0 == map_get(cfg, "budget_settings", empty_map)  \* created empty when absent
      s1 == IF default_period # << >>
            THEN map_put(s0, "default_period", default_period[1]) ELSE s0
      s2 == IF warning_threshold # << >>
            THEN map_put(s1, "warning_threshold", warning_threshold[1]) ELSE s1
      s3 == IF alert_threshold # << >>
            THEN map_put(s2, "alert_threshold", alert_threshold[1]) ELSE s2
  IN done(map_put(cfg, "budget_settings", s3))

(***************************************************************************)
(* A percentage is kept as an exact fraction num/den with den > 0.         *)
(***************************************************************************)
fraction(num, den) == [num |-> num, den |-> den]

\* percentage >= threshold
fraction_ge(percentage, threshold) == percentage.num >= threshold * percentage.den

\* The label of a percentage under thresholds taken in the source's order:
\* alert first, then warning.
status_of(percentage, settings) ==
  IF fraction_ge(percentage, settings.alert_threshold) THEN "alert"
  ELSE IF fraction_ge(percentage, settings.warning_threshold) THEN "warning"
  ELSE "ok"

\* Faulty variant: warning is tested before alert.
calculate_budget_status_warning_first(cfg, category, spent_amount) ==
  LET budgets == get_budgets(cfg)
      settings == get_budget_settings(cfg)
  IN IF ~map_has(budgets, category)
     THEN [has_budget |-> FALSE, budget |-> 0, spent |-> spent_amount,
           remaining |-> 0, percentage |-> fraction(0, 1), status |-> "no_budget"]
     ELSE LET budget == budgets[category]
              budget_amount == map_get(budget, "amount", 0)
              percentage == IF budget_amount = 0
                            THEN fraction(0, 1)
                            ELSE fraction(spent_amount * 100, budget_amount)
          IN [has_budget |-> TRUE, budget |-> budget_amount, spent |-> spent_amount,
              remaining |-> budget_amount - spent_amount,
              percentage |-> percentage,
              status |-> IF fraction_ge(percentage, settings.warning_threshold)
                         THEN "warning"
                         ELSE IF fraction_ge(percentage, settings.alert_threshold)
                         THEN "alert"
                         ELSE "ok",
              period |-> map_get(budget, "period", "monthly")]

\* calculate_budget_status
calculate_budget_status(cfg, category, spent_amount) ==
  LET budgets == get_budgets(cfg)
      settings == get_budget_settings(cfg)
  IN IF ~map_has(budgets, category)
     THEN [has_budget |-> FALSE, budget |-> 0, spent |-> spent_amount,
           remaining |-> 0, percentage |-> fraction(0, 1), status |-> "no_budget"]
     ELSE LET budget == budgets[category]
              budget_amount == map_get(budget, "amount", 0)
              percentage == IF budget_amount = 0
                            THEN fraction(0, 1)
                            ELSE fraction(spent_amount * 100, budget_amount)
          IN [has_budget |-> TRUE, budget |-> budget_amount, spent |-> spent_amount,
              remaining |-> budget_amount - spent_amount,
              percentage |-> percentage,
              status |-> status_of(percentage, settings),
              period |-> map_get(budget, "period", "monthly")]

\* sum(f[k] for k in keys)
RECURSIVE sum_over(_, _)
sum_over(f, keys) ==
  IF keys = {} THEN 0
  ELSE LET k == CHOOSE x \in keys : TRUE
       IN f[k] + sum_over(f, keys \ {k})

\* main of app.py, Budget Overview: the totals over all budgets, from the sums
\* of this month's expenses by category.
budget_overview(cfg, spending_by_category) ==
  LET budgets == get_budgets(cfg)
      budget_settings == get_budget_settings(cfg)
      active == {c \in DOMAIN budgets : map_get(budgets[c], "is_active", TRUE)}
      amounts == [c \in active |-> map_get(budgets[c], "amount", 0)]
      total_budgeted == sum_over(amounts, active)
      total_spent == sum_over(spending_by_category, DOMAIN spending_by_category)
      overall_percentage == IF total_budgeted > 0
                            THEN fraction(total_spent * 100, total_budgeted)
                            ELSE fraction(0, 1)
  IN IF budgets = empty_map
     THEN [shown |-> FALSE]  \* if budgets: nothing is computed
     ELSE [shown |-> TRUE,
           total_budgeted |-> total_budgeted,
           total_spent |-> total_spent,
           total_remaining |-> total_budgeted - total_spent,
           overall_percentage |-> overall_percentage,
           status_text |->
             IF fraction_ge(overall_percentage, budget_settings.alert_threshold)
             THEN "Over Budget"
             ELSE IF fraction_ge(overall_percentage, budget_settings.warning_threshold)
             THEN "Warning"
             ELSE "On Track"]

(***************************************************************************)
(* Inputs of the budget calls.                                             *)
(***************************************************************************)
BudgetCategoryArgs == {s_Food, s_Pets}

\* (amount, period, start_date, is_active) of set_budget
BudgetArgs ==
  { [amount |-> 200, period |-> "monthly", start_date |-> "", is_active |-> TRUE],
    [amount |-> 0, period |-> "monthly", start_date |-> "", is_active |-> TRUE],
    [amount |-> 100, period |-> "weekly", start_date |-> "01-11-2026",
     is_active |-> FALSE] }

DefaultPeriodArgs == {<< >>, <<"weekly">>}
WarningThresholdArgs == {<< >>, <<90>>}
AlertThresholdArgs == {<< >>, <<50>>}
SpentArgs == {0, 150, 170, 250}

\* This month's expenses summed by category (groupby('Category')['Amount'].sum()).
SpendingArgs ==
  { empty_map,
    (s_Food :> 150),
    (s_Fun :> 100),
    (s_Food :> 150 @@ s_Fun :> 100) }

(***************************************************************************)
(* The budget specification: budget calls and update_settings on the       *)
(* module-level config_manager.                                            *)
(***************************************************************************)
BudgetCall(name, a, b, r) ==
  /\ nops < MaxBudgetOps
  /\ config' = r.config
  /\ disk' = IF r.saved THEN save_config(r.config) ELSE disk
  /\ op' = [name |-> name, a |-> a, b |-> b]
  /\ ret' = r.ret
  /\ saved' = r.saved
  /\ nops' = nops + 1
  /\ peer' = peer
  /\ who' = 1
  /\ fault' = "none"
  /\ UNCHANGED outside

SetBudget ==
  \E category \in BudgetCategoryArgs, b \in BudgetArgs :
    BudgetCall("set_budget", category, b,
               set_budget(config, category, b.amount, b.period, b.start_date,
                          b.is_active))

DeleteBudget ==
  \E category \in BudgetCategoryArgs :
    BudgetCall("delete_budget", category, << >>, delete_budget(config, category))

UpdateBudgetSettings ==
  \E default_period \in DefaultPeriodArgs,
     warning_threshold \in WarningThresholdArgs,
     alert_threshold \in AlertThresholdArgs :
    BudgetCall("update_budget_settings", default_period,
               [warning_threshold |-> warning_threshold,
                alert_threshold |-> alert_threshold],
               update_budget_settings(config, default_period, warning_threshold,
                                      alert_threshold))

BudgetUpdateSettings ==
  \E default_category \in DefaultCategoryArgs, auto_categorize \in AutoCategorizeArgs :
    BudgetCall("update_settings", default_category, auto_categorize,
               update_settings(config, default_category, auto_categorize))

\* calculate_budget_status is a read-only call.
CalculateBudgetStatus ==
  \E category \in BudgetCategoryArgs, spent_amount \in SpentArgs :
    BudgetCall("calculate_budget_status", category, spent_amount,
               [config |-> config,
                ret |-> calculate_budget_status(config, category, spent_amount),
                saved |-> FALSE])

\* The Budget Overview of the main page is rendered.
BudgetOverview ==
  \E spending_by_category \in SpendingArgs :
    BudgetCall("budget_overview", spending_by_category, << >>,
               [config |-> config,
                ret |-> budget_overview(config, spending_by_category),
                saved |-> FALSE])

NextBudget ==
  \/ SetBudget
  \/ DeleteBudget
  \/ UpdateBudgetSettings
  \/ BudgetUpdateSettings
  \/ CalculateBudgetStatus
  \/ BudgetOverview

SpecBudget == Init /\ [][NextBudget]_vars

(***************************************************************************)
(* C11.  set_budget(c, ...) returns True and leaves under c exactly the    *)
(* definition it was given, whether or not c had a budget before; the      *)
(* budgets of the other categories stay as they were and no other key      *)
(* appears.  delete_budget(c) removes the definition of c and returns      *)
(* True when c has a budget, and returns False without any change when it  *)
(* has none.                                                               *)
(***************************************************************************)
Budgets == get_budgets(config)

OtherBudgetsKept ==
  \A c \in (DOMAIN Budgets \cup DOMAIN Budgets') \ {op'.a} :
    /\ c \in DOMAIN Budgets
    /\ c \in DOMAIN Budgets'
    /\ Budgets'[c] = Budgets[c]

C11_BudgetStep ==
  /\ op'.name = "set_budget" =>
       /\ ret' = TRUE
       /\ op'.a \in DOMAIN Budgets'
       /\ Budgets'[op'.a] = op'.b
       /\ OtherBudgetsKept
  /\ op'.name = "delete_budget" =>
       IF op'.a \in DOMAIN Budgets
       THEN /\ ret' = TRUE
            /\ op'.a \notin DOMAIN Budgets'
            /\ OtherBudgetsKept
       ELSE /\ Refused
            /\ Budgets' = Budgets

C11_BudgetRoundTrip == [][C11_BudgetStep]_vars

\* Three set_budget-or-delete calls ended with a set_budget that left two
\* budgets, the one just set and another category's.
C11_Witness ==
  /\ op.name = "set_budget"
  /\ nops = MaxBudgetOps
  /\ DOMAIN Budgets = {s_Food, s_Pets}
  /\ Budgets[op.a] = op.b
  /\ Budgets[s_Food] # Budgets[s_Pets]
  /\ ret = TRUE

(***************************************************************************)
(* C12.  update_settings and update_budget_settings are partial updates:   *)
(* a field whose argument is None stays as it was (absent if it was        *)
(* absent), a field whose argument is given takes that value, and neither  *)
(* call changes the categories or the budgets.                             *)
(***************************************************************************)
BudgetSettings == map_get(config, "budget_settings", empty_map)
Settings == settings_of(config)

PartialUpdate(old, new, key, arg) ==
  IF arg = << >>
  THEN /\ key \in DOMAIN new <=> key \in DOMAIN old
       /\ key \in DOMAIN old => new[key] = old[key]
  ELSE /\ key \in DOMAIN new
       /\ new[key] = arg[1]

C12_UpdateStep ==
  /\ op'.name = "update_settings" =>
       /\ PartialUpdate(Settings, Settings', "default_category", op'.a)
       /\ PartialUpdate(Settings, Settings', "auto_categorize", op'.b)
       /\ DOMAIN Settings' \subseteq DOMAIN Settings \cup {"default_category", "auto_categorize"}
       /\ BudgetSettings' = BudgetSettings
       /\ Categories' = Categories
       /\ Budgets' = Budgets
  /\ op'.name = "update_budget_settings" =>
       /\ PartialUpdate(BudgetSettings, BudgetSettings', "default_period", op'.a)
       /\ PartialUpdate(BudgetSettings, BudgetSettings', "warning_threshold",
                        op'.b.warning_threshold)
       /\ PartialUpdate(BudgetSettings, BudgetSettings', "alert_threshold",
                        op'.b.alert_threshold)
       /\ Settings' = Settings
       /\ Categories' = Categories
       /\ Budgets' = Budgets

C12_PartialUpdates == [][C12_UpdateStep]_vars

\* update_budget_settings(warning_threshold=90) was called with a budget set and
\* an alert threshold of 50 stored earlier: the alert threshold is still 50.
C12_Witness ==
  /\ op.name = "update_budget_settings"
  /\ op.a = << >>
  /\ op.b.warning_threshold = <<90>>
  /\ op.b.alert_threshold = << >>
  /\ get_budget_settings(config).alert_threshold = 50
  /\ get_budget_settings(config).warning_threshold = 90
  /\ "default_period" \notin DOMAIN BudgetSettings
  /\ Budgets # empty_map

(***************************************************************************)
(* Loading.  A file holds the document toml.dump last wrote in full, or a  *)
(* text toml.load cannot decode.                                           *)
(***************************************************************************)
toml_decode_error == [toml_decode_error |-> TRUE]

\* Faulty variant: a missing or undecodable file yields an empty configuration.
load_config_empty(file, readable) ==
  IF file # << >> /\ readable /\ file[1] # toml_decode_error
  THEN file[1]
  ELSE empty_map

\* ConfigManager._load_config; readable is FALSE when open() raises.
load_config(file, readable) ==
  IF file # << >>                      \* os.path.exists
  THEN IF readable /\ file[1] # toml_decode_error
       THEN file[1]                    \* toml.load(f)
       ELSE default_config             \* except Exception: default configuration
  ELSE default_config

(***************************************************************************)
(* Two ConfigManager instances on one config.toml: the module-level        *)
(* config_manager of two processes.  Each loads the file once, when it is  *)
(* constructed, and every mutation saves its whole in-memory               *)
(* configuration.  The calls of the two never overlap.                     *)
(***************************************************************************)

\* Number of steps explored by the two-instance specification.
MaxSessionOps == 3

Sessions == {1, 2}
SessionCategoryArgs == {s_Pets}
SessionStoreArgs == {s_Bank, s_Kiosk}
SessionBudgetCategoryArgs == {s_Food}

\* The in-memory configuration of an instance.
SessionConfig(s) == IF s = 1 THEN config ELSE peer[1]

\* ConfigManager() in the second process.
StartPeer ==
  /\ nops < MaxSessionOps
  /\ peer = << >>
  /\ peer' = <<load_config(disk, TRUE)>>
  /\ op' = [name |-> "ConfigManager", a |-> << >>, b |-> << >>]
  /\ ret' = FALSE
  /\ saved' = FALSE
  /\ nops' = nops + 1
  /\ who' = 2
  /\ UNCHANGED <<config, disk, fault, outside>>

SessionCall(s, name, a, b, r) ==
  /\ nops < MaxSessionOps
  /\ s = 2 => peer # << >>
  /\ config' = IF s = 1 THEN r.config ELSE config
  /\ peer' = IF s = 2 THEN <<r.config>> ELSE peer
  /\ disk' = IF r.saved THEN save_config(r.config) ELSE disk
  /\ op' = [name |-> name, a |-> a, b |-> b]
  /\ ret' = r.ret
  /\ saved' = r.saved
  /\ nops' = nops + 1
  /\ who' = s
  /\ fault' = "none"
  /\ UNCHANGED outside

SessionAddCategory ==
  \E s \in Sessions, category_name \in SessionCategoryArgs :
    /\ s = 2 => peer # << >>
    /\ SessionCall(s, "add_category", category_name, << >>,
                   add_category(SessionConfig(s), category_name))

SessionAddStoreToCategory ==
  \E s \in Sessions, category \in CategoryArgs, store_name \in SessionStoreArgs :
    /\ s = 2 => peer # << >>
    /\ SessionCall(s, "add_store_to_category", category, store_name,
                   add_store_to_category(SessionConfig(s), category, store_name))

SessionSetBudget ==
  \E s \in Sessions, category \in SessionBudgetCategoryArgs, b \in BudgetArgs :
    /\ s = 2 => peer # << >>
    /\ SessionCall(s, "set_budget", category, b,
                   set_budget(SessionConfig(s), category, b.amount, b.period,
                              b.start_date, b.is_active))

NextSessions ==
  \/ StartPeer
  \/ SessionAddCategory
  \/ SessionAddStoreToCategory
  \/ SessionSetBudget

SpecSessions == Init /\ [][NextSessions]_vars

(***************************************************************************)
(* C13.  Every mutating call starts from the configuration on disk: what   *)
(* was on disk before a call that saves (a category, a store of a          *)
(* category, a keyword, a budget, put there by either instance) is still   *)
(* on disk after it.  The calls of this specification only add, so a call  *)
(* itself removes nothing.                                                 *)
(***************************************************************************)
NothingLost(old, new) ==
  /\ \A i \in 1..Len(categories_of(old)) :
       LET was == categories_of(old)[i]
       IN /\ dict_has(categories_of(new), was.name)
          /\ \A j \in 1..Len(was.stores) :
               list_in(was.stores[j], dict_get(categories_of(new), was.name).stores)
          /\ \A j \in 1..Len(was.keywords) :
               list_in(was.keywords[j], dict_get(categories_of(new), was.name).keywords)
  /\ DOMAIN get_budgets(old) \subseteq DOMAIN get_budgets(new)

C13_SaveStep == (saved' /\ disk # << >>) => NothingLost(disk[1], disk'[1])

C13_SavesStartFromDisk == [][C13_SaveStep]_vars

(***************************************************************************)
(* C14.  Writes are last-writer-wins on the whole configuration: after a   *)
(* call that saves, the file holds exactly the in-memory configuration of  *)
(* the instance that made the call, whatever the other instance had        *)
(* written before.                                                         *)
(***************************************************************************)
C14_SaveStep == saved' => disk' = <<IF who' = 1 THEN config' ELSE peer'[1]>>

C14_LastWriterWins == [][C14_SaveStep]_vars

\* The first instance added category Pets (add_category returned True: no
\* default category has that name), then the second, constructed before that,
\* added a store and saved: Pets is absent from the file.
C14_Witness ==
  /\ who = 2
  /\ op.name = "add_store_to_category"
  /\ ret = TRUE
  /\ saved
  /\ dict_has(categories_of(config), s_Pets)
  /\ disk = peer
  /\ ~dict_has(categories_of(disk[1]), s_Pets)

(***************************************************************************)
(* Failing saves.  _save_config opens the file with mode 'w', which        *)
(* truncates it, and then dumps; any exception is printed and swallowed.   *)
(* What the file holds afterwards depends on where the exception arose.    *)
(***************************************************************************)

\* Number of steps explored by the failing-save specification.
MaxFailureOps == 3

\* Where _save_config can fail.
Faults == {"open", "empty", "partial", "undecodable"}

\* The part of a mapping under the given keys.
map_only(d, keys) == [k \in DOMAIN d \cap keys |-> d[k]]

\* ConfigManager._save_config with fault f.
save_config_faulty(cfg, file, f) ==
  CASE f = "none" -> save_config(cfg)
    [] f = "open" -> file                        \* open() raised: the file is untouched
    [] f = "empty" -> <<empty_map>>              \* truncated by open(), nothing written
    [] f = "partial" -> <<map_only(cfg, {"settings"})>>  \* cut after the first table
    [] f = "undecodable" -> <<toml_decode_error>>        \* cut inside a line

FailureCategoryArgs == {s_Pets, s_Food}
FailureStoreArgs == {s_Bank}
FailureBudgetArgs ==
  { [amount |-> 200, period |-> "monthly", start_date |-> "", is_active |-> TRUE] }

\* A call with result r whose save, if any, meets fault f.
FailureCall(name, a, b, r, f) ==
  /\ nops < MaxFailureOps
  /\ config' = r.config
  /\ disk' = IF r.saved THEN save_config_faulty(r.config, disk, f) ELSE disk
  /\ op' = [name |-> name, a |-> a, b |-> b]
  /\ ret' = r.ret
  /\ saved' = r.saved
  /\ nops' = nops + 1
  /\ peer' = peer
  /\ who' = 1
  /\ fault' = IF r.saved THEN f ELSE "none"
  /\ UNCHANGED outside

FailureAddCategory ==
  \E category_name \in FailureCategoryArgs, f \in Faults \cup {"none"} :
    FailureCall("add_category", category_name, << >>,
                add_category(config, category_name), f)

FailureAddStoreToCategory ==
  \E category \in FailureCategoryArgs, store_name \in FailureStoreArgs,
     f \in Faults \cup {"none"} :
    FailureCall("add_store_to_category", category, store_name,
                add_store_to_category(config, category, store_name), f)

FailureSetBudget ==
  \E category \in FailureCategoryArgs, b \in FailureBudgetArgs,
     f \in Faults \cup {"none"} :
    FailureCall("set_budget", category, b,
                set_budget(config, category, b.amount, b.period, b.start_date,
                           b.is_active), f)

\* A read in the same process.
FailureGetCategories ==
  FailureCall("get_categories", << >>, << >>,
              [config |-> config, ret |-> get_categories(config), saved |-> FALSE],
              "none")

\* The process is started again: ConfigManager() loads the file.
Load ==
  \E readable \in BOOLEAN :
    FailureCall("ConfigManager", readable, << >>,
                [config |-> load_config(disk, readable), ret |-> FALSE,
                 saved |-> FALSE], "none")

NextFailure ==
  \/ FailureAddCategory
  \/ FailureAddStoreToCategory
  \/ FailureSetBudget
  \/ FailureGetCategories
  \/ Load

SpecFailure == Init /\ [][NextFailure]_vars

(***************************************************************************)
(* C15.  When the save of a mutating call fails, the call still returns    *)
(* True, the in-memory configuration has the change, and the file holds    *)
(* what it held before the call.                                           *)
(***************************************************************************)
ChangeInMemory ==
  /\ op'.name = "add_category" => dict_has(categories_of(config'), op'.a)
  /\ op'.name = "add_store_to_category" =>
       list_in(op'.b, get_stores_for_category(config', op'.a))
  /\ op'.name = "set_budget" =>
       /\ op'.a \in DOMAIN get_budgets(config')
       /\ get_budgets(config')[op'.a] = op'.b

C15_FailedSaveStep ==
  fault' # "none" => (ret' = TRUE /\ ChangeInMemory /\ disk' = disk)

C15_FailedSaveKeepsFile == [][C15_FailedSaveStep]_vars

(***************************************************************************)
(* C16.  After every step the file holds a complete configuration: the     *)
(* document it held before the step, or the whole in-memory configuration  *)
(* before or after the step.                                               *)
(***************************************************************************)
C16_WholeDocumentStep ==
  \/ disk' = disk
  \/ disk' = <<config>>
  \/ disk' = <<config'>>

C16_NoPartialDocument == [][C16_WholeDocumentStep]_vars

(***************************************************************************)
(* C17.  Constructing a ConfigManager when config.toml is missing, cannot  *)
(* be opened or cannot be decoded yields the default configuration:        *)
(* default_category "Other", auto_categorize True and the seven default    *)
(* categories in their order.  Neither loading nor reading writes the      *)
(* file.                                                                   *)
(***************************************************************************)
DocumentedDefault(cfg) ==
  /\ get_default_category(cfg) = s_Other
  /\ is_auto_categorize_enabled(cfg) = TRUE
  /\ get_categories(cfg) =
       <<s_Food, s_Transport, s_Shopping, s_Bills, s_Fun, s_Health, s_Other>>

C17_LoadStep ==
  /\ op'.name = "ConfigManager" =>
       /\ (disk = << >> \/ op'.a = FALSE \/ disk[1] = toml_decode_error) =>
            DocumentedDefault(config')
       /\ disk' = disk
       /\ saved' = FALSE
  /\ op'.name = "get_categories" => (disk' = disk /\ saved' = FALSE)

C17_MissingFileYieldsDefault == [][C17_LoadStep]_vars

\* A ConfigManager was constructed on a file cut inside a line by a failed
\* save: it holds the default configuration and the file is as it was.
C17_Witness ==
  /\ op.name = "ConfigManager"
  /\ op.a = TRUE
  /\ disk = <<toml_decode_error>>
  /\ DocumentedDefault(config)
  /\ config = default_config

(***************************************************************************)
(* C18.  calculate_budget_status(category, spent) for a category with a    *)
(* budget returns percentage = spent / amount * 100 when amount > 0 and 0  *)
(* otherwise, remaining = amount - spent, and the label alert when         *)
(* percentage >= alert_threshold, else warning when percentage >=          *)
(* warning_threshold, else ok, whichever threshold is the larger; for a    *)
(* category without a budget it returns has_budget False and no_budget.    *)
(* With budget 200 and thresholds 80/100: 150 gives 75 and ok, 170 gives   *)
(* 85 and warning, 250 gives 125, remaining -50 and alert.                 *)
(***************************************************************************)

\* spent / amount * 100 >= threshold, with 0 for the percentage when amount is 0
PercentageAtLeast(spent, amount, threshold) ==
  IF amount > 0 THEN spent * 100 >= threshold * amount ELSE 0 >= threshold

\* The returned percentage equals p.
PercentageIs(p) == ret.percentage.den > 0 /\ ret.percentage.num = p * ret.percentage.den

C18_StatusOfBudget ==
  op.name = "calculate_budget_status" =>
    LET spent == op.b
        settings == get_budget_settings(config)
    IN IF op.a \notin DOMAIN Budgets
       THEN ret.has_budget = FALSE /\ ret.status = "no_budget"
       ELSE LET amount == Budgets[op.a].amount
            IN /\ ret.has_budget = TRUE
               /\ ret.percentage.den > 0
               /\ amount > 0 =>
                    ret.percentage.num * amount = spent * 100 * ret.percentage.den
               /\ ~(amount > 0) => ret.percentage.num = 0
               /\ ret.remaining = amount - spent
               /\ ret.status \in {"alert", "warning", "ok"}
               /\ ret.status = "alert" <=>
                    PercentageAtLeast(spent, amount, settings.alert_threshold)
               /\ ret.status = "warning" <=>
                    /\ ~PercentageAtLeast(spent, amount, settings.alert_threshold)
                    /\ PercentageAtLeast(spent, amount, settings.warning_threshold)
               /\ (amount = 200 /\ settings.warning_threshold = 80
                     /\ settings.alert_threshold = 100) =>
                    /\ spent = 150 => (PercentageIs(75) /\ ret.status = "ok")
                    /\ spent = 170 => (PercentageIs(85) /\ ret.status = "warning")
                    /\ spent = 250 => /\ PercentageIs(125)
                                      /\ ret.remaining = -50
                                      /\ ret.status = "alert"

\* Budget 200 for Food, warning threshold 90 above alert threshold 50, spent 150:
\* 75 percent is an alert.
C18_Witness ==
  /\ op.name = "calculate_budget_status"
  /\ op.a = s_Food
  /\ op.b = 150
  /\ s_Food \in DOMAIN Budgets
  /\ Budgets[s_Food].amount = 200
  /\ get_budget_settings(config).warning_threshold = 90
  /\ get_budget_settings(config).alert_threshold = 50
  /\ PercentageIs(75)
  /\ ret.status = "alert"

(***************************************************************************)
(* C20.  In the Budget Overview total_budgeted is the sum of the amounts   *)
(* of the active budgets, total_spent is the sum of this period's spend    *)
(* of the categories that have a budget (spend of a category without a     *)
(* budget does not count), and the overall status follows the alert /      *)
(* warning / ok rule on total_spent / total_budgeted * 100, taken as 0     *)
(* when total_budgeted is 0.                                               *)
(***************************************************************************)
ActiveBudgets == {c \in DOMAIN Budgets : Budgets[c].is_active}

BudgetedSpend == sum_over(op.a, DOMAIN op.a \cap DOMAIN Budgets)

C20_OverviewTotals ==
  (op.name = "budget_overview" /\ ret.shown) =>
    LET settings == get_budget_settings(config)
        total_budgeted == sum_over([c \in ActiveBudgets |-> Budgets[c].amount],
                                   ActiveBudgets)
    IN /\ ret.total_budgeted = total_budgeted
       /\ ret.total_spent = BudgetedSpend
       /\ ret.status_text = "Over Budget" <=>
            PercentageAtLeast(BudgetedSpend, total_budgeted, settings.alert_threshold)
       /\ ret.status_text = "Warning" <=>
            /\ ~PercentageAtLeast(BudgetedSpend, total_budgeted,
                                  settings.alert_threshold)
            /\ PercentageAtLeast(BudgetedSpend, total_budgeted,
                                 settings.warning_threshold)
       /\ total_budgeted = 0 => ret.overall_percentage.num = 0

(***************************************************************************)
(* Budget periods.  A datetime is a record of its seven fields; the        *)
(* calendar is the proleptic Gregorian one of Python's datetime and        *)
(* calendar modules.                                                       *)
(***************************************************************************)

\* Number of calls explored by the period specification.
MaxPeriodOps == 2

datetime(year, month, day, hour, minute, second, microsecond) ==
  [year |-> year, month |-> month, day |-> day, hour |-> hour, minute |-> minute,
   second |-> second, microsecond |-> microsecond]

\* calendar.isleap
isleap(year) == year % 4 = 0 /\ (year % 100 # 0 \/ year % 400 = 0)

\* calendar.monthrange(year, month)[1]
monthrange_days(year, month) ==
  <<31, 28, 31, 30, 31, 30, 31, 31, 30, 31, 30, 31>>[month]
    + (IF month = 2 /\ isleap(year) THEN 1 ELSE 0)

\* Days of the months of the year before the given month.
RECURSIVE days_before_month(_, _)
days_before_month(year, month) ==
  IF month = 1 THEN 0
  ELSE days_before_month(year, month - 1) + monthrange_days(year, month - 1)

\* date.toordinal(): 1 for 1 January of year 1
toordinal(date) ==
  LET y == date.year - 1
  IN y * 365 + y \div 4 - y \div 100 + y \div 400
       + days_before_month(date.year, date.month) + date.day

\* date.weekday(): Monday is 0, Sunday is 6
weekday(date) == (toordinal(date) + 6) % 7

\* The same time on the day before / after.
previous_day(date) ==
  IF date.day > 1 THEN [date EXCEPT !.day = @ - 1]
  ELSE IF date.month > 1
  THEN [date EXCEPT !.month = @ - 1, !.day = monthrange_days(date.year, date.month - 1)]
  ELSE [date EXCEPT !.year = @ - 1, !.month = 12, !.day = 31]

next_day(date) ==
  IF date.day < monthrange_days(date.year, date.month) THEN [date EXCEPT !.day = @ + 1]
  ELSE IF date.month < 12 THEN [date EXCEPT !.month = @ + 1, !.day = 1]
  ELSE [date EXCEPT !.year = @ + 1, !.month = 1, !.day = 1]

\* date - timedelta(days=days)
RECURSIVE minus_days(_, _)
minus_days(date, days) ==
  IF days = 0 THEN date ELSE minus_days(previous_day(date), days - 1)

RECURSIVE plus_days(_, _)
plus_days(date, days) ==
  IF days = 0 THEN date ELSE plus_days(next_day(date), days - 1)

\* date + timedelta(days, hours, minutes, seconds, microseconds), with carries
plus_timedelta(date, days, hours, minutes, seconds, microseconds) ==
  LET us == date.microsecond + microseconds
      s == date.second + seconds + us \div 1000000
      m == date.minute + minutes + s \div 60
      h == date.hour + hours + m \div 60
  IN plus_days([date EXCEPT !.hour = h % 24, !.minute = m % 60, !.second = s % 60,
                            !.microsecond = us % 1000000],
               days + h \div 24)

\* Faulty variant: the month always ends on day 28.
get_monthly_period_short(date) ==
  << [date EXCEPT !.day = 1, !.hour = 0, !.minute = 0, !.second = 0,
                  !.microsecond = 0],
     [date EXCEPT !.day = 28, !.hour = 23, !.minute = 59, !.second = 59,
                  !.microsecond = 999999] >>

\* get_monthly_period
get_monthly_period(date) ==
  LET start == [date EXCEPT !.day = 1, !.hour = 0, !.minute = 0, !.second = 0,
                            !.microsecond = 0]
      last_day == monthrange_days(date.year, date.month)
      end == [date EXCEPT !.day = last_day, !.hour = 23, !.minute = 59,
                          !.second = 59, !.microsecond = 999999]
  IN <<start, end>>

\* get_weekly_period
get_weekly_period(date) ==
  LET start == [minus_days(date, weekday(date))
                  EXCEPT !.hour = 0, !.minute = 0, !.second = 0, !.microsecond = 0]
      end == plus_timedelta(start, 6, 23, 59, 59, 999999)
  IN <<start, end>>

\* get_current_period_dates, at time now
get_current_period_dates(period, now) ==
  IF period = "weekly" THEN get_weekly_period(now) ELSE get_monthly_period(now)

(***************************************************************************)
(* Reference dates: the first week and the last days of months with 31,    *)
(* 30, 29 and 28 days, across the turn of a year, at three times of day.   *)
(***************************************************************************)
PeriodArgs == {"monthly", "weekly"}

DateArgs ==
  LET YearArgs == {2023, 2024}
      MonthArgs == {1, 2, 4, 12}
      DayArgs == {1, 2, 3, 4, 5, 6, 7, 28, 29, 30, 31}
      TimeArgs == { <<0, 0, 0, 0>>, <<12, 30, 15, 500000>>, <<23, 59, 59, 999999>> }
  IN { datetime(y, m, d, t[1], t[2], t[3], t[4]) :
         <<y, m, d, t>> \in
           { x \in YearArgs \X MonthArgs \X DayArgs \X TimeArgs :
               x[3] <= monthrange_days(x[1], x[2]) } }

\* datetime.now() when the period of the current date is asked for
NowArgs == { date \in DateArgs : date.day \in {1, 29} /\ date.hour = 12 }

PeriodCall(name, a, b, r) ==
  /\ nops < MaxPeriodOps
  /\ op' = [name |-> name, a |-> a, b |-> b]
  /\ ret' = r
  /\ saved' = FALSE
  /\ nops' = nops + 1
  /\ who' = 1
  /\ fault' = "none"
  /\ UNCHANGED outside
  /\ UNCHANGED <<config, disk, peer>>

GetMonthlyPeriod ==
  \E date \in DateArgs :
    PeriodCall("get_monthly_period", date, << >>, get_monthly_period(date))

GetWeeklyPeriod ==
  \E date \in DateArgs :
    PeriodCall("get_weekly_period", date, << >>, get_weekly_period(date))

GetCurrentPeriodDates ==
  \E period \in PeriodArgs, now \in NowArgs :
    PeriodCall("get_current_period_dates", now, period,
               get_current_period_dates(period, now))

NextPeriod ==
  \/ GetMonthlyPeriod
  \/ GetWeeklyPeriod
  \/ GetCurrentPeriodDates

SpecPeriod == Init /\ [][NextPeriod]_vars

(***************************************************************************)
(* C19.  The period of a reference date contains it.  A monthly period     *)
(* runs from day 1 of the date's month at 00:00:00 to the last calendar    *)
(* day of that month (29 February in leap years) at 23:59:59.999999; a     *)
(* weekly period runs from the Monday on or before the date at 00:00:00    *)
(* to the Sunday six days later at 23:59:59.999999.  Two dates of the same *)
(* month, or of the same Monday-to-Sunday week, get the same period.       *)
(***************************************************************************)
datetime_key(d) == <<d.year, d.month, d.day, d.hour, d.minute, d.second, d.microsecond>>

\* a <= b for datetimes: field by field, the year first
RECURSIVE key_le(_, _, _)
key_le(a, b, i) ==
  IF i > Len(a) THEN TRUE
  ELSE IF a[i] # b[i] THEN a[i] < b[i]
  ELSE key_le(a, b, i + 1)

datetime_le(a, b) == key_le(datetime_key(a), datetime_key(b), 1)

LastCalendarDay(year, month) ==
  IF month = 2
  THEN IF year % 4 = 0 /\ (year % 100 # 0 \/ year % 400 = 0) THEN 29 ELSE 28
  ELSE IF month \in {4, 6, 9, 11} THEN 30 ELSE 31

IsMonthly(o) ==
  \/ o.name = "get_monthly_period"
  \/ o.name = "get_current_period_dates" /\ o.b = "monthly"

IsWeekly(o) ==
  \/ o.name = "get_weekly_period"
  \/ o.name = "get_current_period_dates" /\ o.b = "weekly"

SameMonth(a, b) == a.year = b.year /\ a.month = b.month

\* Ordinal 1 is a Monday, so the weeks are the ordinals 1..7, 8..14, ...
SameWeek(a, b) == (toordinal(a) - 1) \div 7 = (toordinal(b) - 1) \div 7

StartOfDay(d) == d.hour = 0 /\ d.minute = 0 /\ d.second = 0 /\ d.microsecond = 0
EndOfDay(d) == d.hour = 23 /\ d.minute = 59 /\ d.second = 59 /\ d.microsecond = 999999

C19_PeriodStep ==
  /\ IsMonthly(op') =>
       /\ ret'[1] = datetime(op'.a.year, op'.a.month, 1, 0, 0, 0, 0)
       /\ ret'[2] = datetime(op'.a.year, op'.a.month,
                             LastCalendarDay(op'.a.year, op'.a.month),
                             23, 59, 59, 999999)
       /\ datetime_le(ret'[1], op'.a)
       /\ datetime_le(op'.a, ret'[2])
       /\ (IsMonthly(op) /\ SameMonth(op.a, op'.a)) => ret' = ret
  /\ IsWeekly(op') =>
       /\ StartOfDay(ret'[1])
       /\ weekday(ret'[1]) = 0
       /\ toordinal(op'.a) - toordinal(ret'[1]) \in 0..6
       /\ EndOfDay(ret'[2])
       /\ weekday(ret'[2]) = 6
       /\ toordinal(ret'[2]) = toordinal(ret'[1]) + 6
       /\ datetime_le(ret'[1], op'.a)
       /\ datetime_le(op'.a, ret'[2])
       /\ (IsWeekly(op) /\ SameWeek(op.a, op'.a)) => ret' = ret

C19_PeriodBounds == [][C19_PeriodStep]_vars

\* The weekly period of Thursday 29 February 2024, 12:30:15.5, was asked for
\* after that of another day of the same week: Monday 26 February 00:00:00 to
\* Sunday 3 March 23:59:59.999999.
C19_Witness ==
  /\ IsWeekly(op)
  /\ nops = MaxPeriodOps
  /\ op.a = datetime(2024, 2, 29, 12, 30, 15, 500000)
  /\ ret = << datetime(2024, 2, 26, 0, 0, 0, 0),
              datetime(2024, 3, 3, 23, 59, 59, 999999) >>

(***************************************************************************)
(* The ledger: the worksheets of the Google spreadsheet, read and written  *)
(* through conn.read and conn.update (src/user_utils.py and the pages).    *)
(* A worksheet name "expenses_taras" is the pair <<"expenses", "taras">>;  *)
(* a row is a record of its columns.  st.secrets names no worksheets, so   *)
(* get_worksheet_names takes its fallback names.                           *)
(***************************************************************************)

\* Number of steps explored by the ledger specification.
MaxLedgerOps == 2

\* get_worksheet_names (the except branch)
get_worksheet_names(user_id) ==
  LET suffix == IF user_id = "shared" THEN user_id
                ELSE IF user_id = "user1" THEN "taras" ELSE "dana"
  IN [data_type \in {"expenses", "income", "recurrings", "investments"} |->
        <<data_type, suffix>>]

\* conn.read(worksheet=...): << >> when it raises (no such worksheet, or the
\* connection fails), <<rows>> otherwise.
conn_read(sheets, worksheet, fails) ==
  IF fails \/ worksheet \notin DOMAIN sheets THEN << >> ELSE <<sheets[worksheet]>>

\* df['_source'] = source
with_source(rows, source) ==
  [i \in 1..Len(rows) |-> map_put(rows[i], "_source", source)]

\* Faulty variant: a failing read of the private worksheet ends the merge.
get_user_and_shared_data_aborting(sheets, failing, user_id, data_type) ==
  LET user_df == conn_read(sheets, get_worksheet_names(user_id)[data_type],
                           "personal" \in failing)
      shared_df == conn_read(sheets, get_worksheet_names("shared")[data_type],
                             "shared" \in failing)
  IN IF user_df = << >>
     THEN [rows |-> << >>, reads |-> <<get_worksheet_names(user_id)[data_type]>>]
     ELSE [rows |-> with_source(user_df[1], "personal")
                      \o (IF shared_df = << >> THEN << >>
                          ELSE with_source(shared_df[1], "shared")),
           reads |-> <<get_worksheet_names(user_id)[data_type],
                       get_worksheet_names("shared")[data_type]>>]

\* Faulty variant: the shared rows come first.
get_user_and_shared_data_shared_first(sheets, failing, user_id, data_type) ==
  LET user_df == conn_read(sheets, get_worksheet_names(user_id)[data_type],
                           "personal" \in failing)
      shared_df == conn_read(sheets, get_worksheet_names("shared")[data_type],
                             "shared" \in failing)
  IN [rows |-> (IF shared_df = << >> THEN << >>
                ELSE with_source(shared_df[1], "shared"))
                 \o (IF user_df = << >> THEN << >>
                     ELSE with_source(user_df[1], "personal")),
      reads |-> <<get_worksheet_names(user_id)[data_type],
                  get_worksheet_names("shared")[data_type]>>]

\* get_user_and_shared_data: the rows of the combined frame and the worksheets
\* conn.read was called on.  failing holds the reads that raise.
get_user_and_shared_data(sheets, failing, user_id, data_type) ==
  LET user_df == conn_read(sheets, get_worksheet_names(user_id)[data_type],
                           "personal" \in failing)
      shared_df == conn_read(sheets, get_worksheet_names("shared")[data_type],
                             "shared" \in failing)
      personal == IF user_df = << >> THEN << >>     \* except: print, go on
                  ELSE with_source(user_df[1], "personal")
      shared == IF shared_df = << >> THEN << >>
                ELSE with_source(shared_df[1], "shared")
  IN [rows |-> personal \o shared,                  \* pd.concat(dfs, ignore_index=True)
      reads |-> <<get_worksheet_names(user_id)[data_type],
                  get_worksheet_names("shared")[data_type]>>]

\* main of the Dashboard page, Load Data: the expenses it goes on with;
\* << >> when loading raised and the page stopped.
dashboard_expenses(sheets, failing, current_user) ==
  IF current_user \in {"user1", "user2"}
  THEN <<get_user_and_shared_data(sheets, failing, current_user, "expenses").rows>>
  ELSE conn_read(sheets, get_worksheet_names("shared")["expenses"],
                 "shared" \in failing)

\* edit_transactions of the Transactions page: the expenses it lists.
transactions_expenses(sheets, fails) == conn_read(sheets, <<"expenses", "taras">>, fails)

(***************************************************************************)
(* The ledger specification: two browser sessions select identities and    *)
(* open the pages that load expenses, on a spreadsheet that was filled     *)
(* earlier.                                                                *)
(***************************************************************************)

\* Spreadsheets the program can find: no worksheet yet; only the shared one
\* filled and an empty private one; all three filled, one expense entered both
\* in a private and in the shared worksheet.
LedgerArgs ==
  LET t1 == [Store |-> "Bakery", Amount |-> 10]
      d1 == [Store |-> "Florist", Amount |-> 20]
      s1 == [Store |-> "Landlord", Amount |-> 900]
      x == [Store |-> "Supermarket", Amount |-> 50]
  IN { empty_map,
       (<<"expenses", "dana">> :> << >> @@ <<"expenses", "shared">> :> <<x, s1>>),
       (<<"expenses", "taras">> :> <<t1, x>> @@ <<"expenses", "dana">> :> <<d1>>
          @@ <<"expenses", "shared">> :> <<x, s1>>) }

InitLedger ==
  /\ InitStore
  /\ ledger \in LedgerArgs
  /\ ui = [s \in {1, 2} |-> new_session]
  /\ clock = [year |-> 2024, month |-> 3, day |-> 1, hour |-> 0, minute |-> 0,
              second |-> 0, microsecond |-> 0]

\* A step of a page within bound steps: it shows r and leaves the session
\* states and the worksheets as given.
LedgerStep(bound, name, a, b, r, sessions, sheets) ==
  /\ nops < bound
  /\ op' = [name |-> name, a |-> a, b |-> b]
  /\ ret' = r
  /\ nops' = nops + 1
  /\ ui' = sessions
  /\ ledger' = sheets
  /\ UNCHANGED <<config, disk, saved, peer, who, fault, clock>>

\* render_user_selector: another identity is selected in the sidebar.
SelectUser ==
  \E s \in DOMAIN ui, user_id \in {"user1", "user2", "shared"} :
    /\ user_id # ui[s].current_user
    /\ LedgerStep(MaxLedgerOps, "set_current_user", s, user_id, << >>,
                  [ui EXCEPT ![s].current_user = user_id], ledger)

\* The Dashboard page is opened.
LoadDashboard ==
  \E s \in DOMAIN ui, failing \in SUBSET {"personal", "shared"} :
    LedgerStep(MaxLedgerOps, "dashboard", s, failing,
               dashboard_expenses(ledger, failing, ui[s].current_user), ui, ledger)

\* The Dashboard's merge, with what it read.
MergeExpenses ==
  \E s \in DOMAIN ui, failing \in SUBSET {"personal", "shared"} :
    /\ ui[s].current_user \in {"user1", "user2"}
    /\ LedgerStep(MaxLedgerOps, "get_user_and_shared_data", s, failing,
                  get_user_and_shared_data(ledger, failing, ui[s].current_user,
                                           "expenses"),
                  ui, ledger)

\* The Transactions page is opened on its edit tab.
ViewTransactions ==
  \E s \in DOMAIN ui, fails \in BOOLEAN :
    LedgerStep(MaxLedgerOps, "edit_transactions", s, fails,
               transactions_expenses(ledger, fails), ui, ledger)

NextLedger ==
  \/ SelectUser
  \/ LoadDashboard
  \/ MergeExpenses
  \/ ViewTransactions

SpecLedger == InitLedger /\ [][NextLedger]_vars

(***************************************************************************)
(* C21.  Every page that loads expenses serves the active identity rows of *)
(* its own worksheets only: user1 and user2 get rows of their private      *)
(* worksheet and of the shared one, never of the other's private           *)
(* worksheet, and the shared identity gets rows of the shared worksheet    *)
(* only.                                                                   *)
(***************************************************************************)
RowsOf(worksheet) ==
  IF worksheet \in DOMAIN ledger
  THEN {ledger[worksheet][i] : i \in 1..Len(ledger[worksheet])}
  ELSE {}

\* The rows the identity may see.
VisibleTo(user_id) ==
  RowsOf(get_worksheet_names(user_id)["expenses"])
    \cup RowsOf(get_worksheet_names("shared")["expenses"])

\* A served row without the column the merge adds.
Untagged(row) == map_del(row, "_source")

C21_ServedOwnPartitionsOnly ==
  (op.name \in {"dashboard", "edit_transactions"} /\ ret # << >>) =>
    \A i \in 1..Len(ret[1]) :
      Untagged(ret[1][i]) \in VisibleTo(ui[op.a].current_user)

\* The worksheets a merge for the session of the last call addresses, and the
\* rows a read of them yielded: none when the read raised.
MergedWorksheet(which) ==
  get_worksheet_names(IF which = "personal" THEN ui[op.a].current_user
                      ELSE "shared")["expenses"]

Readable(which) == which \notin op.b /\ MergedWorksheet(which) \in DOMAIN ledger

Yielded(which) == IF Readable(which) THEN ledger[MergedWorksheet(which)] ELSE << >>

Tagged(row, source) == map_has(row, "_source") /\ map_get(row, "_source", None) = source

(***************************************************************************)
(* C22.  Every merge reads both the private and the shared worksheet; a    *)
(* read that raises contributes no row and the merge still returns: with   *)
(* the private worksheet unreadable and the shared one readable the        *)
(* result is exactly the shared rows, tagged shared, and with both         *)
(* unreadable it is empty.                                                 *)
(***************************************************************************)
C22_FailedReadContributesNothing ==
  op.name = "get_user_and_shared_data" =>
    /\ ret.reads = <<MergedWorksheet("personal"), MergedWorksheet("shared")>>
    /\ \A which \in {"personal", "shared"} :
         ~Readable(which) => \A i \in 1..Len(ret.rows) : ~Tagged(ret.rows[i], which)
    /\ (~Readable("personal") /\ Readable("shared")) =>
         ret.rows = [i \in 1..Len(Yielded("shared")) |->
                       map_put(Yielded("shared")[i], "_source", "shared")]
    /\ (~Readable("personal") /\ ~Readable("shared")) => ret.rows = << >>

C22_Witness ==
  /\ op.name = "get_user_and_shared_data"
  /\ ~Readable("personal")
  /\ Readable("shared")
  /\ Len(ret.rows) = 2
  /\ \A i \in 1..2 : Tagged(ret.rows[i], "shared")

(***************************************************************************)
(* C23.  The merge returns the private rows followed by the shared rows,   *)
(* each in the order of its worksheet and none dropped as a duplicate, the *)
(* private ones tagged personal and the shared ones tagged shared.         *)
(***************************************************************************)
C23_PrivateThenShared ==
  op.name = "get_user_and_shared_data" =>
    LET private == Yielded("personal")
        shared == Yielded("shared")
    IN /\ Len(ret.rows) = Len(private) + Len(shared)
       /\ \A i \in 1..Len(ret.rows) :
            IF i <= Len(private)
            THEN /\ Untagged(ret.rows[i]) = private[i]
                 /\ Tagged(ret.rows[i], "personal")
            ELSE /\ Untagged(ret.rows[i]) = shared[i - Len(private)]
                 /\ Tagged(ret.rows[i], "shared")

\* A merge of two rows and two rows, one expense being in both worksheets.
C23_Witness ==
  /\ op.name = "get_user_and_shared_data"
  /\ Len(Yielded("personal")) = 2
  /\ Len(Yielded("shared")) = 2
  /\ Len(ret.rows) = 4
  /\ Untagged(ret.rows[2]) = Untagged(ret.rows[3])
  /\ ret.rows[2] # ret.rows[3]

(***************************************************************************)
(* Recurring expenses (pages/4_Recurrings.py).  A date cell holds the text *)
(* "dd-mm-yyyy", kept as its three fields <<dd, mm, yyyy>>, or is empty,   *)
(* << >>.                                                                  *)
(***************************************************************************)
MaxRecurringOps == 2

\* date.strftime("%d-%m-%Y")
strftime_dmy(date) == <<date.day, date.month, date.year>>

\* pd.to_datetime(cell, format='mixed', dayfirst=True, errors='coerce'):
\* <<timestamp>> at midnight of the day, << >> for NaT.
to_datetime(cell) ==
  IF /\ Len(cell) = 3
     /\ cell[2] \in 1..12
     /\ cell[1] \in 1..monthrange_days(cell[3], cell[2])
  THEN <<datetime(cell[3], cell[2], cell[1], 0, 0, 0, 0)>>
  ELSE << >>

\* (a - b).days: the whole days of the difference, rounded down.
timedelta_days(a, b) ==
  LET time_of(d) == <<d.hour, d.minute, d.second, d.microsecond>>
      earlier(s, t) == \E i \in 1..4 : s[i] < t[i] /\ \A j \in 1..(i - 1) : s[j] = t[j]
  IN toordinal(a) - toordinal(b) - (IF earlier(time_of(a), time_of(b)) THEN 1 ELSE 0)

\* view_recurrings, "Determine status color": red is Overdue, yellow and
\* green are Due in days_until days, white is No due date.
due_status(next_due, now) ==
  IF next_due # << >>                                  \* pd.notna(next_due)
  THEN LET days_until == timedelta_days(next_due[1], now)
       IN [status_color |-> IF days_until < 0 THEN "red"
                            ELSE IF days_until <= 3 THEN "yellow" ELSE "green",
           days_until |-> <<days_until>>]
  ELSE [status_color |-> "white", days_until |-> << >>]

\* recurrings_df['Amount'].sum()
RECURSIVE amount_sum(_)
amount_sum(rows) ==
  IF rows = << >> THEN 0
  ELSE amount_sum(SubSeq(rows, 1, Len(rows) - 1)) + rows[Len(rows)].Amount

\* view_recurrings: << >> when it reports that nothing was found; else the
\* metrics and the card of every row, by the row's index in the loaded frame
\* (the page lists the cards by Next_Due).
view_recurrings(sheets, failing, current_user, now) ==
  LET recurrings_df ==
        IF current_user \in {"user1", "user2"}
        THEN <<get_user_and_shared_data(sheets, failing, current_user, "recurrings").rows>>
        ELSE conn_read(sheets, get_worksheet_names("shared")["recurrings"],
                       "shared" \in failing)
  IN IF recurrings_df = << >> \/ recurrings_df[1] = << >> THEN << >>
     ELSE LET rows == recurrings_df[1]
          IN << [active_count |-> Cardinality({i \in 1..Len(rows) : rows[i].Status = "Active"}),
                 total_yearly |-> amount_sum(rows) * 12,
                 cards |-> [idx \in 1..Len(rows) |->
                              [name |-> rows[idx].Name,
                               row |-> rows[idx],
                               status |-> due_status(to_datetime(rows[idx].Next_Due), now)]]] >>

\* What conn.read of the worksheet to append to gave: its rows, or the text
\* of the exception it raised.
existing_data(sheets, worksheet, raised) ==
  [raised |-> raised, rows |-> IF raised = "" THEN sheets[worksheet] ELSE << >>]

\* Faulty variant: the rows read are written back with the due date of the new row.
append_update_rescheduling(sheets, worksheet, read, new_df) ==
  IF read.raised = ""
  THEN [sheets |-> map_put(sheets, worksheet,
                           [i \in 1..Len(read.rows) |->
                              [read.rows[i] EXCEPT !.Next_Due = new_df[1].Next_Due]] \o new_df),
        success |-> TRUE]
  ELSE IF read.raised = "WorksheetNotFound"
  THEN [sheets |-> map_put(sheets, worksheet, new_df), success |-> TRUE]
  ELSE [sheets |-> sheets, success |-> FALSE]

\* Faulty variant: only the new row is sent and the service appends it.
append_update_appending(sheets, worksheet, read, new_df) ==
  IF read.raised \in {"", "WorksheetNotFound"}
  THEN [sheets |-> map_put(sheets, worksheet, map_get(sheets, worksheet, << >>) \o new_df),
        success |-> TRUE]
  ELSE [sheets |-> sheets, success |-> FALSE]

\* After the read: pd.concat([existing_data, new_df]) and conn.update of the
\* whole worksheet, or conn.update with the new row alone when the worksheet
\* was not found, or the error message.
append_update(sheets, worksheet, read, new_df) ==
  IF read.raised = ""
  THEN [sheets |-> map_put(sheets, worksheet, read.rows \o new_df), success |-> TRUE]
  ELSE IF read.raised = "WorksheetNotFound"
  THEN [sheets |-> map_put(sheets, worksheet, new_df), success |-> TRUE]
  ELSE [sheets |-> sheets, success |-> FALSE]

\* add_recurring: the row of the submitted form
recurring_df(form, now) ==
  << [Name |-> form.name, Amount |-> form.amount, Category |-> form.category,
      Frequency |-> form.frequency, Next_Due |-> strftime_dmy(form.next_due),
      Status |-> form.status, Notes |-> form.notes,
      Added_Date |-> strftime_dmy(now)] >>

\* add_recurring: the worksheet the scope selects
recurring_worksheet(current_user, scope) ==
  IF scope = "Shared" THEN get_worksheet_names("shared")["recurrings"]
  ELSE get_worksheet_names(current_user)["recurrings"]

\* add_recurring, on submission of the form
add_recurring(sheets, raised, current_user, scope, form, now) ==
  IF form.name = "" \/ form.amount <= 0
  THEN [sheets |-> sheets, success |-> FALSE]
  ELSE LET worksheet_name == recurring_worksheet(current_user, scope)
       IN append_update(sheets, worksheet_name,
                        existing_data(sheets, worksheet_name, raised),
                        recurring_df(form, now))

(***************************************************************************)
(* The recurring specification: time passes, two sessions select           *)
(* identities, open the list of recurring expenses and add to it.          *)
(***************************************************************************)
\* Spreadsheets: no worksheet yet; active items only; items of every status,
\* with and without a due date.
RecurringArgs ==
  LET item(name, amount, category, frequency, next_due, status) ==
        [Name |-> name, Amount |-> amount, Category |-> category,
         Frequency |-> frequency, Next_Due |-> next_due, Status |-> status,
         Notes |-> "", Added_Date |-> <<1, 1, 2024>>]
      rent == item("Rent", 900, s_Bills, "Monthly", <<29, 2, 2024>>, "Active")
      gym == item("Gym", 30, s_Health, "Monthly", <<20, 2, 2024>>, "Paused")
      insurance == item("Insurance", 240, s_Bills, "Yearly", <<15, 3, 2024>>, "Active")
      magazine == item("Magazine", 5, s_Fun, "Weekly", << >>, "Cancelled")
  IN { empty_map,
       (<<"recurrings", "taras">> :> <<insurance>>
          @@ <<"recurrings", "shared">> :> <<rent>>),
       (<<"recurrings", "taras">> :> <<gym, insurance>>
          @@ <<"recurrings", "dana">> :> <<magazine>>
          @@ <<"recurrings", "shared">> :> <<rent>>) }

\* datetime.now(): three days before a due date and the due date itself, at
\* midnight and later in the day, and a day in the month after.
ClockArgs ==
  { datetime(2024, 2, 26, 0, 0, 0, 0), datetime(2024, 2, 26, 9, 30, 0, 0),
    datetime(2024, 2, 29, 0, 0, 0, 0), datetime(2024, 2, 29, 18, 0, 0, 1),
    datetime(2024, 3, 11, 8, 0, 0, 0) }

\* What is typed into the form of add_recurring.
RecurringFormArgs ==
  LET form(name, amount, next_due, status) ==
        [name |-> name, amount |-> amount, category |-> s_Fun,
         frequency |-> "Monthly", next_due |-> next_due, status |-> status,
         notes |-> ""]
  IN { form("Netflix", 12, datetime(2024, 2, 29, 0, 0, 0, 0), "Active"),
       form("Netflix", 12, datetime(2024, 3, 30, 0, 0, 0, 0), "Paused"),
       form("", 12, datetime(2024, 3, 30, 0, 0, 0, 0), "Active"),
       form("Netflix", 0, datetime(2024, 3, 30, 0, 0, 0, 0), "Active") }

InitRecurring ==
  /\ InitStore
  /\ ledger \in RecurringArgs
  /\ ui = [s \in {1, 2} |-> new_session]
  /\ clock \in {c \in ClockArgs : c.day = 26}

\* Time passes.
Tick ==
  \E later \in ClockArgs :
    /\ nops < MaxRecurringOps
    /\ timedelta_days(later, clock) >= 0
    /\ later # clock
    /\ clock' = later
    /\ op' = [name |-> "tick", a |-> << >>, b |-> << >>]
    /\ ret' = << >>
    /\ nops' = nops + 1
    /\ UNCHANGED <<config, disk, saved, peer, who, fault, ledger, ui>>

\* The texts conn.read can raise with on the worksheet, "" when it returns.
ReadOutcomes(sheets, worksheet) ==
  IF worksheet \in DOMAIN sheets THEN {"", "Connection lost"}
  ELSE {"WorksheetNotFound", "Connection lost"}

SelectRecurringUser ==
  \E s \in DOMAIN ui, user_id \in {"user1", "user2", "shared"} :
    /\ user_id # ui[s].current_user
    /\ LedgerStep(MaxRecurringOps, "set_current_user", s, user_id, << >>,
                  [ui EXCEPT ![s].current_user = user_id], ledger)

ViewRecurrings ==
  \E s \in DOMAIN ui, failing \in SUBSET {"personal", "shared"} :
    LedgerStep(MaxRecurringOps, "view_recurrings", s, failing,
               view_recurrings(ledger, failing, ui[s].current_user, clock),
               ui, ledger)

AddRecurring ==
  \E s \in DOMAIN ui, scope \in {"Personal", "Shared"}, form \in RecurringFormArgs :
    \E raised \in ReadOutcomes(ledger, recurring_worksheet(ui[s].current_user, scope)) :
      /\ ui[s].current_user = "shared" => scope = "Shared"
      /\ LET added == add_recurring(ledger, raised, ui[s].current_user, scope,
                                    form, clock)
         IN LedgerStep(MaxRecurringOps, "add_recurring", s,
                       [scope |-> scope, form |-> form, raised |-> raised],
                       [success |-> added.success], ui, added.sheets)

NextRecurring ==
  \/ Tick
  \/ SelectRecurringUser
  \/ ViewRecurrings
  \/ AddRecurring

SpecRecurring == InitRecurring /\ [][NextRecurring]_vars

\* The cards of the list of recurring expenses the last step showed.
ShownCards == IF op.name = "view_recurrings" /\ ret # << >> THEN ret[1].cards ELSE << >>

SameDay(a, b) == a.year = b.year /\ a.month = b.month /\ a.day = b.day

(***************************************************************************)
(* C24.  Every listed item gets exactly one label from days_until =        *)
(* (next_due - now).days: overdue (red) below 0, due soon (yellow) from 0  *)
(* to 3, upcoming (green) above; an item without a parseable due date gets *)
(* the unknown label (white) and no days_until; an item due on the day of  *)
(* the view is due soon, not overdue.                                      *)
(***************************************************************************)
C24_DueStatus ==
  \A idx \in DOMAIN ShownCards :
    LET next_due == to_datetime(ShownCards[idx].row.Next_Due)
        status == ShownCards[idx].status
        days_until == timedelta_days(next_due[1], clock)
    IN /\ next_due = << >> =>
            status = [status_color |-> "white", days_until |-> << >>]
       /\ next_due # << >> =>
            /\ status.days_until = <<days_until>>
            /\ status.status_color =
                 (IF days_until < 0 THEN "red"
                  ELSE IF days_until <= 3 THEN "yellow" ELSE "green")
            /\ SameDay(next_due[1], clock) => status.status_color = "yellow"

(***************************************************************************)
(* C25.  The estimated yearly cost shown is twelve times the sum of the    *)
(* amounts of the active items; paused and cancelled items add nothing.    *)
(***************************************************************************)
IsActive(card) == card.row.Status = "Active"

RECURSIVE AmountOf(_)
AmountOf(cards) ==
  IF cards = << >> THEN 0
  ELSE AmountOf(SubSeq(cards, 1, Len(cards) - 1)) + cards[Len(cards)].row.Amount

C25_YearlyCostOfActiveItems ==
  (op.name = "view_recurrings" /\ ret # << >>) =>
    ret[1].total_yearly = 12 * AmountOf(SelectSeq(ShownCards, IsActive))

(***************************************************************************)
(* C26.  No step changes the due date of a stored recurring item: every    *)
(* stored row stays where it is, as it is, and an item that is overdue     *)
(* stays overdue as time passes, whatever is viewed or added.              *)
(***************************************************************************)
IsOverdue(row, now) == due_status(to_datetime(row.Next_Due), now).status_color = "red"

C26_Step ==
  \A worksheet \in DOMAIN ledger :
    /\ worksheet \in DOMAIN ledger'
    /\ Len(ledger'[worksheet]) >= Len(ledger[worksheet])
    /\ \A i \in 1..Len(ledger[worksheet]) :
         /\ ledger'[worksheet][i] = ledger[worksheet][i]
         /\ IsOverdue(ledger[worksheet][i], clock) =>
              IsOverdue(ledger'[worksheet][i], clock')

C26_OverdueStaysOverdue == [][C26_Step]_vars

\* Rent has become overdue and another item was added to its worksheet since.
C26_Witness ==
  /\ op.name = "add_recurring"
  /\ ret.success
  /\ <<"recurrings", "shared">> \in DOMAIN ledger
  /\ Len(ledger[<<"recurrings", "shared">>]) = 2
  /\ IsOverdue(ledger[<<"recurrings", "shared">>][1], clock)
  /\ ledger[<<"recurrings", "shared">>][2].Name = "Netflix"

(***************************************************************************)
(* The append specification: two sessions add recurring expenses and       *)
(* expenses.  An add is two steps, the read of the worksheet and, later,   *)
(* the update with what was read and the new row; in between the other     *)
(* session may act.  pending holds what the session's add has read and the *)
(* message the page shows when the add is over.                            *)
(***************************************************************************)
MaxAppendOps == 4

InitAppend ==
  /\ InitStore
  /\ ledger \in RecurringArgs
  /\ ui = [s \in {1, 2} |-> new_session]
  /\ clock \in {c \in ClockArgs : c.day = 26 /\ c.hour = 9}

\* add_recurring and add_transaction_form up to conn.read: the form is valid
\* (an expense is entered for a store of the list, so that the configuration
\* is left alone), the worksheet is read.
BeginAdd ==
  \E s \in DOMAIN ui, page \in {"Personal", "Shared", "Expense"},
     form \in {f \in RecurringFormArgs : f.name # "" /\ f.amount > 0} :
    LET worksheet == IF page = "Expense" THEN <<"expenses", "taras">>
                     ELSE recurring_worksheet(ui[s].current_user, page)
        new_df == IF page = "Expense"
                  THEN << [Date |-> strftime_dmy(clock), Amount |-> form.amount,
                           Store |-> s_Supermarket, Category |-> s_Food,
                           Card |-> ""] @@ ("Payment Option" :> "Cash") >>
                  ELSE recurring_df(form, clock)
    IN \E raised \in ReadOutcomes(ledger, worksheet) :
         LedgerStep(MaxAppendOps, "conn.read", s, worksheet, << >>,
                    [ui EXCEPT ![s].pending =
                       <<[worksheet |-> worksheet, new_df |-> new_df, message |-> "",
                          read |-> existing_data(ledger, worksheet, raised)]>>],
                    ledger)

\* The rest of the add: conn.update and the message.
FinishAdd ==
  \E s \in DOMAIN ui :
    /\ ui[s].pending # << >>
    /\ ui[s].pending[1].message = ""
    /\ LET add == ui[s].pending[1]
           updated == append_update(ledger, add.worksheet, add.read, add.new_df)
           message == IF updated.success THEN "success" ELSE "error"
       IN LedgerStep(MaxAppendOps, "conn.update", s, add.worksheet,
                     [success |-> updated.success],
                     [ui EXCEPT ![s].pending[1].message = message],
                     updated.sheets)

NextAppend ==
  \/ BeginAdd
  \/ FinishAdd

SpecAppend == InitAppend /\ [][NextAppend]_vars

(***************************************************************************)
(* C27.  A successful add leaves in the worksheet exactly the rows it read *)
(* at its start, in order, followed by its new row, or the new row alone   *)
(* when the worksheet did not exist, and touches no other worksheet.  So   *)
(* when two sessions have read the same rows of a worksheet and both have  *)
(* reported success, the worksheet holds one new row only: the row of the  *)
(* session that wrote first is lost.                                       *)
(***************************************************************************)
Adding(s) == ui[s].pending[1]

Reported(s, message) == ui[s].pending # << >> /\ Adding(s).message = message

C27_Step ==
  /\ (op'.name = "conn.update" /\ ret'.success) =>
       LET add == Adding(op'.a)
       IN /\ ledger'[add.worksheet] =
               (IF add.worksheet \in DOMAIN ledger /\ add.read.raised = ""
                THEN add.read.rows ELSE << >>) \o add.new_df
          /\ add.read.raised = "" => add.worksheet \in DOMAIN ledger
          /\ \A other \in DOMAIN ledger' \ {add.worksheet} :
               other \in DOMAIN ledger /\ ledger'[other] = ledger[other]
  /\ LET first == ui'[1].pending
         second == ui'[2].pending
     IN (/\ first # << >>
         /\ second # << >>
         /\ first[1].message = "success"
         /\ second[1].message = "success"
         /\ first[1].worksheet = second[1].worksheet
         /\ first[1].read = second[1].read) =>
          /\ Len(ledger'[first[1].worksheet]) = Len(first[1].read.rows) + 1
          /\ ledger'[first[1].worksheet] =
               first[1].read.rows \o ui'[op'.a].pending[1].new_df

C27_ReadModifyWrite == [][C27_Step]_vars

\* Both sessions read the one row of a worksheet, both wrote and reported
\* success, and the worksheet holds two rows: the second is session 2's, and
\* session 1's row is nowhere.
C27_Witness ==
  /\ Reported(1, "success")
  /\ Reported(2, "success")
  /\ Adding(1).worksheet = Adding(2).worksheet
  /\ Adding(1).read = Adding(2).read
  /\ Len(Adding(1).read.rows) = 1
  /\ Adding(1).new_df # Adding(2).new_df
  /\ ledger[Adding(1).worksheet] = Adding(1).read.rows \o Adding(2).new_df
  /\ \A i \in 1..Len(ledger[Adding(1).worksheet]) :
       ledger[Adding(1).worksheet][i] # Adding(1).new_df[1]

(***************************************************************************)
(* C28.  A successful rename_category(old, new) puts new last in           *)
(* get_categories() and keeps the order of the other categories;           *)
(* add_category appends the new category and remove_category keeps the     *)
(* order of those that remain.  So a store listed in the renamed category  *)
(* and in a later one, which auto_categorize_store gave to the former, is  *)
(* given to the later one after the rename.                                *)
(***************************************************************************)
PositionOf(name) == CHOOSE i \in Positions : Categories[i].name = name

C28_OrderStep ==
  /\ (op'.name = "rename_category" /\ ret' = TRUE) =>
       /\ get_categories(config')
            = Append(Without(get_categories(config), PositionOf(op'.a)), op'.b)
       /\ \A store_name \in StoreArgs \ {s_empty} :
            LET listing == ExactPositions(store_name)
            IN (/\ is_auto_categorize_enabled(config)
                /\ PositionOf(op'.a) \in listing
                /\ \A i \in listing : i >= PositionOf(op'.a)
                /\ listing # {PositionOf(op'.a)}) =>
                 /\ auto_categorize_store(config, store_name) = op'.a
                 /\ auto_categorize_store(config', store_name)
                      = Categories[CHOOSE i \in listing \ {PositionOf(op'.a)} :
                                     \A j \in listing \ {PositionOf(op'.a)} : i <= j].name
                 /\ auto_categorize_store(config', store_name) # op'.b
  /\ (op'.name = "add_category" /\ ret' = TRUE) =>
       get_categories(config') = Append(get_categories(config), op'.a)
  /\ (op'.name = "remove_category" /\ ret' = TRUE) =>
       get_categories(config')
         = Without(get_categories(config), PositionOf(op'.a))

C28_RenameMovesToEnd == [][C28_OrderStep]_vars

\* Supermarket, a store of Food, was added to Other; then Food, the first
\* category, was renamed to Pets: Pets is last, still lists Supermarket, and
\* Supermarket now goes to Other.
C28_Witness ==
  /\ op.name = "rename_category"
  /\ op.a = s_Food
  /\ ret = TRUE
  /\ get_categories(config)[Len(get_categories(config))] = s_Pets
  /\ list_in(s_Supermarket, get_stores_for_category(config, s_Pets))
  /\ list_in(s_Supermarket, get_stores_for_category(config, s_Other))
  /\ auto_categorize_store(config, s_Supermarket) = s_Other

(***************************************************************************)
(* The reference specification: budgets are set, categories are removed    *)
(* and renamed, stores are categorized and budget statuses are asked for.  *)
(***************************************************************************)
NextReferences ==
  \/ SetBudget
  \/ RemoveCategory
  \/ RenameCategory
  \/ AutoCategorizeStore
  \/ CalculateBudgetStatus

SpecReferences == Init /\ [][NextReferences]_vars

(***************************************************************************)
(* C29.  remove_category(c) and rename_category(c, n) leave the budgets as *)
(* they are: a budget of c stays under the name c and n gets none from the *)
(* rename.  remove_category(c) leaves default_category as it is, also when *)
(* it is c, and auto_categorize_store then returns a name that is no       *)
(* category.  calculate_budget_status(c, x) reports has_budget true for a  *)
(* budget of c whether or not the category c exists.                       *)
(***************************************************************************)
C29_ReferenceStep ==
  /\ (op'.name \in {"remove_category", "rename_category"} /\ ret' = TRUE) =>
       /\ ~dict_has(categories_of(config'), op'.a)
       /\ get_budgets(config') = get_budgets(config)
       /\ map_has(config', "budgets") <=> map_has(config, "budgets")
  /\ (op'.name = "rename_category" /\ ret' = TRUE) =>
       (map_has(get_budgets(config'), op'.b) <=> map_has(get_budgets(config), op'.b))
  /\ (op'.name = "remove_category" /\ ret' = TRUE) =>
       /\ settings_of(config') = settings_of(config)
       /\ get_default_category(config) = op'.a =>
            /\ get_default_category(config') = op'.a
            /\ ~list_in(op'.a, get_categories(config'))
            /\ \E store_name \in StoreQueries :
                 auto_categorize_store(config', store_name) = op'.a
  /\ (op'.name = "calculate_budget_status" /\ map_has(get_budgets(config), op'.a)) =>
       ret'.has_budget = TRUE

C29_ReferencesLeftAlone == [][C29_ReferenceStep]_vars

\* set_budget(Food, ...), then Food was removed or renamed, then
\* calculate_budget_status(Food, x): the budget is still reported.
C29_Witness ==
  /\ op.name = "calculate_budget_status"
  /\ op.a = s_Food
  /\ ~list_in(s_Food, get_categories(config))
  /\ map_has(get_budgets(config), s_Food)
  /\ ~map_has(get_budgets(config), s_Pets)
  /\ ret.has_budget = TRUE

(***************************************************************************)
(* C30.  From the default configuration on, after any calls that add,      *)
(* remove or rename categories and add or remove stores and keywords:      *)
(* every keyword is lower-case and no two keywords of a category are equal *)
(* ignoring case; no two stores of a category are exactly equal, though    *)
(* they may differ in case only; every category has a store list and a     *)
(* keyword list; and a call addressed to one category leaves the stores    *)
(* and keywords of every other category as they were.                      *)
(***************************************************************************)
Mutators ==
  {"add_category", "remove_category", "rename_category", "add_store_to_category",
   "remove_store_from_category", "add_keyword_to_category",
   "remove_keyword_from_category"}

C30_WellFormed ==
  \A i \in Positions :
    /\ {"stores", "keywords"} \subseteq DOMAIN Categories[i]
    /\ \A n \in 1..Len(Categories[i].keywords) :
         /\ IsLowerCase(Categories[i].keywords[n])
         /\ \A m \in 1..Len(Categories[i].keywords) :
              SameIgnoringCase(Categories[i].keywords[n], Categories[i].keywords[m])
                => n = m
    /\ \A n, m \in 1..Len(Categories[i].stores) :
         Categories[i].stores[n] = Categories[i].stores[m] => n = m

C30_OthersStep ==
  op'.name \in Mutators =>
    \A i \in Positions :
      Categories[i].name # op'.a =>
        \E j \in 1..Len(categories_of(config')) :
          categories_of(config')[j] = Categories[i]

C30_CategoriesWellFormed == []C30_WellFormed /\ [][C30_OthersStep]_vars

\* Bank and bank were added to the stores of a category, one after the other:
\* both are there, and the category's stores are still pairwise different.
C30_Witness ==
  /\ nops = 2
  /\ op.name = "add_store_to_category"
  /\ ret = TRUE
  /\ list_in(s_Bank, get_stores_for_category(config, op.a))
  /\ list_in(s_bank, get_stores_for_category(config, op.a))
  /\ C30_WellFormed

====
